---- MODULE Spec2Model ----
(***************************************************************************)
(* A model of gnatpython's two C extension modules:                        *)
(*   src/src/mod_win/winlow.c     safe_unlink (forced deletion, NT API)    *)
(*   src/src/mod_term/terminals.c pty/pipe child control and poll          *)
(*                                                                         *)
(* Three state machines share the module, each with a specification of its *)
(* own; the variables of the other two stay at their initial values:       *)
(*   SpecUnlink   one call of safe_unlink against a small NT file system   *)
(*   SpecPoll     one call of __gnat_expect_poll (POSIX, HP-UX, Windows)   *)
(*   SpecPty      the life of one POSIX term_handler                       *)
(***************************************************************************)
EXTENDS Integers, Sequences, FiniteSets, TLC

VARIABLES
  fs,        \* the file system object named by the path given to safe_unlink
  u_pc,      \* position of safe_unlink
  u,         \* safe_unlink's local variables
  u_result,  \* the UNLINK_RESULT returned
  u_hist,    \* what the call has done so far (observations, not program state)
  p_in,      \* the build and the arguments of __gnat_expect_poll
  p_env,     \* the descriptors: which have data, an exceptional condition, ...
  p_pc,      \* position of __gnat_expect_poll
  p,         \* its locals and the caller's is_set array
  p_hist,    \* what the call has met so far (observations)
  h_in,      \* the build of the pty code (how allocate_pty_desc gets the pty)
  h,         \* the parent process: position, and pid as fork returned it
  desc,      \* the parent's term_handler
  h_open,    \* the descriptors of the handle that are open in the parent
  child,     \* the forked process: position, its copy of desc, its descriptors
  h_hist,    \* what has happened to the handle so far (observations)
  wh,        \* the Windows term_handler (GVD_Process) and the caller's position
  wproc,     \* the process CreateProcess started
  w_hist,     \* what has happened to the Windows handle so far (observations)
  a_argv,    \* the argv array handed to nt_spawnve
  a_gui,     \* what is_gui_app returned for argv[0]
  a_pc,      \* "start", "spawned" (command line built), "parsed"
  a_cmdline, \* the command line given to CreateProcess
  a_parsed,  \* the argv array the child's C runtime makes of it
  a_mem,     \* nt_spawnve's buffer: bytes allocated, bytes written
  t_tio,     \* the termios settings of the pty's slave side
  t_pc,      \* "setup" before child_setup_tty has run, "run" after
  t_written, \* the bytes the parent has written to in_fd, in order
  t_line,    \* the line discipline's unfinished input line
  t_ready,   \* the input the child can read: a sequence of chunks
  t_out,     \* the bytes on their way to the master side
  t_read,    \* the bytes the parent has read from out_fd, in order
  t_child,   \* the child copying stdin to stdout: "running", ...
  t_hist,    \* what has happened on the pty so far (observations)
  d_in,      \* a directory and the way NtQueryDirectoryFile enumerates it
  d_pc,      \* "start" before the call of is_dir_empty, "done" after
  d_result,  \* the status is_dir_empty returned
  m_in,      \* the file name, volume root and IndexNumber move_away meets
  m_pc,      \* "start", "volume" once the volume root is known, "done"
  m_out      \* what move_away has built, written and returned

uvars == <<fs, u_pc, u, u_result, u_hist>>

pvars == <<p_in, p_env, p_pc, p, p_hist>>

hvars == <<h_in, h, desc, h_open, child, h_hist>>

wvars == <<wh, wproc, w_hist>>

avars == <<a_argv, a_gui, a_pc, a_cmdline, a_parsed, a_mem>>

tvars == <<t_tio, t_pc, t_written, t_line, t_ready, t_out, t_read, t_child,
           t_hist>>

dvars == <<d_in, d_pc, d_result>>

mvars == <<m_in, m_pc, m_out>>

vars == <<fs, u_pc, u, u_result, u_hist, p_in, p_env, p_pc, p, p_hist,
          h_in, h, desc, h_open, child, h_hist, wh, wproc, w_hist,
          a_argv, a_gui, a_pc, a_cmdline, a_parsed, a_mem,
          t_tio, t_pc, t_written, t_line, t_ready, t_out, t_read, t_child,
          t_hist, d_in, d_pc, d_result, m_in, m_pc, m_out>>

\* what each machine leaves alone
notUnlink == <<pvars, hvars, wvars, avars, tvars, dvars, mvars>>
notPoll == <<uvars, hvars, wvars, avars, tvars, dvars, mvars>>
notPty == <<uvars, pvars, wvars, avars, tvars, dvars, mvars>>
notWin == <<uvars, pvars, hvars, avars, tvars, dvars, mvars>>
notArgv == <<uvars, pvars, hvars, wvars, tvars, dvars, mvars>>
notTty == <<uvars, pvars, hvars, wvars, avars, dvars, mvars>>
notDir == <<uvars, pvars, hvars, wvars, avars, tvars, mvars>>
notMove == <<uvars, pvars, hvars, wvars, avars, tvars, dvars>>

(***************************************************************************)
(* Bounds of the model (not program constants).                            *)
(***************************************************************************)
\* the most entries of each kind (persisting, delete-pending) in a directory
MaxEntries == 1
\* the most descriptors given to poll
MaxFds == 2
\* the most sleeps of one call of the Windows poll
MaxSleeps == 12
\* the most calls of gvd_setup_parent_communication on one handle
MaxSetups == 2
\* the argv arrays considered: elements plus characters, at most this many
MaxArgvSize == 5
\* the most bytes the parent writes to in_fd
MaxWritten == 3
\* the most real entries of the directory given to is_dir_empty alone
MaxListed == 3

(***************************************************************************)
(*                    winlow.c : NT statuses                               *)
(***************************************************************************)
STATUS_SUCCESS == "STATUS_SUCCESS"
STATUS_SHARING_VIOLATION == "STATUS_SHARING_VIOLATION"
STATUS_DELETE_PENDING == "STATUS_DELETE_PENDING"
STATUS_DIRECTORY_NOT_EMPTY == "STATUS_DIRECTORY_NOT_EMPTY"
STATUS_CANNOT_DELETE == "STATUS_CANNOT_DELETE"
STATUS_NO_MORE_FILES == "STATUS_NO_MORE_FILES"
STATUS_OBJECT_NAME_NOT_FOUND == "STATUS_OBJECT_NAME_NOT_FOUND"
STATUS_OBJECT_PATH_NOT_FOUND == "STATUS_OBJECT_PATH_NOT_FOUND"
\* any failure the code has no branch for
STATUS_ACCESS_DENIED == "STATUS_ACCESS_DENIED"

\* NT_SUCCESS(status): of the statuses above only STATUS_SUCCESS is >= 0
NT_SUCCESS(status) == status = STATUS_SUCCESS

(***************************************************************************)
(*                    winlow.c : is_dir_empty                              *)
(*                                                                         *)
(* The enumeration NtQueryDirectoryFile hands out is a sequence of pages,  *)
(* each a non-empty sequence of entries; an entry is given by the status   *)
(* NtQueryAttributesFile returns for it.  first is the status of the first *)
(* NtQueryDirectoryFile call, last the status of the call made after the   *)
(* final page.                                                             *)
(***************************************************************************)
\* lines 218-220: the statuses for which an entry counts as absent
EntryAbsent(status) ==
  status \in {STATUS_DELETE_PENDING, STATUS_OBJECT_NAME_NOT_FOUND,
              STATUS_OBJECT_PATH_NOT_FOUND}

\* lines 203-233: the inner loop over the entries of one page, from entry i
RECURSIVE ScanPage(_, _)
ScanPage(page, i) ==
  IF i > Len(page) THEN TRUE
  ELSE IF ~EntryAbsent(page[i]) THEN FALSE
  ELSE ScanPage(page, i + 1)

\* lines 203-241: the outer loop over the pages, from page p at entry i
RECURSIVE ScanPages(_, _, _)
ScanPages(pages, pg, i) ==
  IF pg > Len(pages) THEN TRUE
  ELSE IF ~ScanPage(pages[pg], i) THEN FALSE
  ELSE ScanPages(pages, pg + 1, 1)

is_dir_empty(first, pages, last) ==
  IF first = STATUS_NO_MORE_FILES THEN STATUS_SUCCESS
  ELSE IF ~NT_SUCCESS(first) THEN first
  \* the first two entries of the first page are skipped; an entry whose
  \* NextEntryOffset is 0 is the last of its page
  ELSE IF Len(pages[1]) <= 2 THEN STATUS_SUCCESS
  \* a failed later NtQueryDirectoryFile (last) only ends the loop
  ELSE IF ScanPages(pages, 1, 3) THEN STATUS_SUCCESS
  ELSE STATUS_DIRECTORY_NOT_EMPTY

(***************************************************************************)
(*                    The NT file system, as far as safe_unlink sees it    *)
(***************************************************************************)
\* What another process holds on the object:
\*   none          no handle
\*   delete        a handle with DELETE access only, sharing all
\*   read_shdel    read access, granting FILE_SHARE_DELETE
\*   read_noshdel  read access, not granting FILE_SHARE_DELETE
OtherKinds == {"none", "delete", "read_shdel", "read_noshdel"}

FILE_SHARE_DELETE == {"FILE_SHARE_DELETE"}
FILE_SHARE_VALID_FLAGS == {"FILE_SHARE_READ", "FILE_SHARE_WRITE", "FILE_SHARE_DELETE"}

\* IoCheckShareAccess for an open that asks DELETE and FILE_READ_DATA
\* (FILE_LIST_DIRECTORY is the same bit) with share mode share
SharingConflict(other, share) ==
  \/ other \in {"read_shdel", "read_noshdel"} /\ "FILE_SHARE_READ" \notin share
  \/ other = "read_noshdel"

\* the name is still listed in its parent directory
Visible == fs.where = "orig"

\* other_attrs: FileAttributes holds a bit besides FILE_ATTRIBUTE_READONLY
\* (FILE_ATTRIBUTE_DIRECTORY, FILE_ATTRIBUTE_ARCHIVE, ...); an object that
\* is not read-only always reports one (FILE_ATTRIBUTE_NORMAL at least)
FsStates ==
  {f \in [where : {"orig", "gone"}, is_dir : BOOLEAN, readonly : BOOLEAN,
          other_attrs : BOOLEAN,
          delpend : BOOLEAN, other : OtherKinds,
          persist : 0..MaxEntries, pending : 0..MaxEntries] :
     /\ f.where = "gone" =>
          ~f.is_dir /\ ~f.readonly /\ ~f.delpend /\ f.other = "none"
          /\ ~f.other_attrs
     /\ f.where # "gone" /\ (f.is_dir \/ ~f.readonly) => f.other_attrs
     /\ ~f.is_dir => f.persist = 0 /\ f.pending = 0
     \* a delete-pending object is held open by someone, and a directory
     \* accepts the delete disposition only when it has no entry
     /\ f.delpend => f.other # "none" /\ f.persist = 0 /\ f.pending = 0}

\* NtQueryAttributesFile on the path
QueryStatuses ==
  IF fs.where # "orig" THEN {STATUS_OBJECT_NAME_NOT_FOUND}
  ELSE IF fs.delpend THEN {STATUS_DELETE_PENDING}
  ELSE {STATUS_SUCCESS, STATUS_ACCESS_DENIED}

\* NtOpenFile on the path for deletion
OpenStatuses(share) ==
  IF fs.where # "orig" THEN {STATUS_OBJECT_NAME_NOT_FOUND}
  ELSE IF fs.delpend THEN {STATUS_DELETE_PENDING}
  ELSE IF SharingConflict(fs.other, share) THEN {STATUS_SHARING_VIOLATION}
  ELSE {STATUS_SUCCESS, STATUS_ACCESS_DENIED}

\* NtOpenFile on the path with FILE_WRITE_ATTRIBUTES (no share check)
AttrOpenStatuses ==
  IF fs.where # "orig" THEN {STATUS_OBJECT_NAME_NOT_FOUND}
  ELSE IF fs.delpend THEN {STATUS_DELETE_PENDING}
  ELSE {STATUS_SUCCESS, STATUS_ACCESS_DENIED}

\* NtSetInformationFile(FileDispositionInformation) on the open handle:
\* read-only is checked first, then emptiness of a directory
DispositionStatuses ==
  IF fs.readonly THEN {STATUS_CANNOT_DELETE}
  ELSE IF fs.is_dir /\ fs.persist + fs.pending > 0
         THEN {STATUS_DIRECTORY_NOT_EMPTY, STATUS_ACCESS_DENIED}
  ELSE IF fs.is_dir THEN {STATUS_SUCCESS, STATUS_ACCESS_DENIED}
  \* a file with a mapped image section cannot be deleted either
  ELSE {STATUS_SUCCESS, STATUS_CANNOT_DELETE, STATUS_ACCESS_DENIED}

\* the statuses of move_away: NtQueryInformationFile, then the rename
MoveStatuses == {STATUS_SUCCESS, STATUS_ACCESS_DENIED, STATUS_OBJECT_PATH_NOT_FOUND}

\* the pages of seq cut after every position of cuts, from position i
RECURSIVE SplitPages(_, _, _)
SplitPages(seq, cuts, i) ==
  IF i > Len(seq) THEN <<>>
  ELSE LET ends == {j \in i..Len(seq) : j \in cuts \/ j = Len(seq)}
           e == CHOOSE j \in ends : \A k \in ends : j <= k
       IN <<SubSeq(seq, i, e)>> \o SplitPages(seq, cuts, e + 1)

\* the entries of the directory in the order of enumeration: ".", "..",
\* then the real entries, persisting and delete-pending ones in any order
DirEntries ==
  LET n == fs.persist + fs.pending
      real == {s \in [1..n -> {STATUS_SUCCESS, STATUS_DELETE_PENDING}] :
                 Cardinality({i \in 1..n : s[i] = STATUS_SUCCESS}) = fs.persist}
  IN {<<STATUS_SUCCESS, STATUS_SUCCESS>> \o s : s \in real}

\* line 163: the buffer of is_dir_empty holds at least three entries, so
\* every page but the last one carries at least that many
MinPage == 3

\* the ways the enumeration s comes in pages
PageSplits(s) ==
  {SplitPages(s, cuts, 1) :
     cuts \in {c \in SUBSET (1..(Len(s) - 1)) :
                \A q \in 1..(Len(SplitPages(s, c, 1)) - 1) :
                   Len(SplitPages(s, c, 1)[q]) >= MinPage}}

\* every status is_dir_empty can return on the directory as it is now: the
\* first NtQueryDirectoryFile fails; or it succeeds and the enumeration runs
\* to STATUS_NO_MORE_FILES; or a later NtQueryDirectoryFile fails after k
\* pages
DirEmptyStatuses ==
  {is_dir_empty(STATUS_ACCESS_DENIED, <<>>, STATUS_NO_MORE_FILES)}
  \cup
  UNION {{is_dir_empty(STATUS_SUCCESS, SubSeq(pages, 1, k),
                       IF k = Len(pages) THEN STATUS_NO_MORE_FILES
                                         ELSE STATUS_ACCESS_DENIED) :
            k \in 1..Len(pages)} :
         pages \in UNION {PageSplits(s) : s \in DirEntries}}

\* NtOpenFile relative to the open handle with FILE_DELETE_ON_CLOSE
ReopenStatuses ==
  IF fs.readonly THEN {STATUS_CANNOT_DELETE}
  ELSE IF fs.is_dir /\ fs.persist + fs.pending > 0 THEN {STATUS_DIRECTORY_NOT_EMPTY}
  ELSE {STATUS_SUCCESS, STATUS_CANNOT_DELETE, STATUS_ACCESS_DENIED}

(***************************************************************************)
(*                    winlow.c : safe_unlink                               *)
(***************************************************************************)
\* line 272: ULONG try_counter = 10
OpenTries == 10
\* line 372: try_counter = 20
DeleteTries == 20
\* line 377: try_counter = 5 once the object has been moved away
MovedTries == 5

DELETE == "DELETE"
FILE_OPEN_FOR_BACKUP_INTENT == "FILE_OPEN_FOR_BACKUP_INTENT"

\* lines 256-278: the locals as declared
UnlinkLocals ==
  [status |-> STATUS_SUCCESS,
   dir_empty |-> FALSE, try_to_move_away |-> FALSE,
   has_been_moved_away |-> FALSE, is_dir |-> FALSE,
   try_again |-> TRUE, try_counter |-> OpenTries,
   share |-> FILE_SHARE_DELETE, access |-> {DELETE},
   flags |-> {FILE_OPEN_FOR_BACKUP_INTENT},
   \* FILE_ATTRIBUTE_DIRECTORY of file_basic_information, as last queried
   fbi_dir |-> FALSE,
   \* the delete handle is open
   handle |-> FALSE]

NoResult == [last_error_code |-> "none", debug |-> 0]

UnlinkHist ==
  [\* is_dir_empty has returned success in this call
   checked_empty |-> FALSE,
   \* a directory was renamed before is_dir_empty had returned success
   renamed_unchecked |-> FALSE,
   \* a directory holding a persisting entry was renamed
   renamed_nonempty |-> FALSE,
   \* NtSetInformationFile (FileBasicInformation) returned success
   ro_pushed |-> FALSE,
   \* the return statement taken: "query" (lines 285, 309), "sharing" (331),
   \* "pending" (337), "open" (340), "moved" (429), "plain" (431)
   branch |-> "none",
   \* the calls of NtOpenFile made by the open loop, the status of the
   \* last one, and the milliseconds the loop has slept
   opens |-> 0,
   open_status |-> "none",
   open_slept |-> 0,
   \* the calls of NtSetInformationFile (FileDispositionInformation) made by
   \* the deletion loop and the status of the last one
   disps |-> 0,
   last_disp |-> "none",
   \* has_been_moved_away when the deletion loop made its first call
   moved_before |-> FALSE,
   \* the loop set the disposition again after a call that succeeded, or
   \* that failed with a status other than STATUS_CANNOT_DELETE and
   \* STATUS_DIRECTORY_NOT_EMPTY on a directory is_dir_empty found empty
   after_stop |-> FALSE,
   \* the handles the call holds open: "attr" (line 293), "handle" (323),
   \* "handle2" (407); every kind it has opened; the successful calls of
   \* NtOpenFile and the calls of NtClose; NtClose was given a handle that
   \* was not open
   open |-> {}, kinds |-> {}, opened |-> 0, closes |-> 0, bad_close |-> FALSE,
   \* the calls of move_away
   moves |-> 0]

\* NtOpenFile returned success and stored the handle hd
Opened(hist, hd) ==
  [hist EXCEPT !.open = @ \cup {hd}, !.kinds = @ \cup {hd}, !.opened = @ + 1]

\* NtClose (hd)
NtClose(hist, hd) ==
  [hist EXCEPT !.open = @ \ {hd}, !.closes = @ + 1,
               !.bad_close = @ \/ hd \notin hist.open]

\* the call has returned
Returned == u_pc = "done"

\* return (UNLINK_RESULT) { status, debug }
Return(status, debug) ==
  /\ u_pc' = "done"
  /\ u_result' = [last_error_code |-> status, debug |-> debug]

\* lines 313-318: is_dir follows the attribute; the two statements after it
\* are not part of the if and run for every target
Classify(l, dir) ==
  [l EXCEPT !.fbi_dir = dir,
            !.is_dir = dir,
            !.access = @ \cup {"FILE_LIST_DIRECTORY", "SYNCHRONIZE"},
            !.flags = @ \cup {"FILE_SYNCHRONOUS_IO_NONALERT"}]

\* lines 283-290: the first NtQueryAttributesFile
U_Query ==
  /\ u_pc = "query"
  /\ \E st \in QueryStatuses :
       IF ~NT_SUCCESS(st)
       THEN Return(st, 1) /\ u' = [u EXCEPT !.status = st]
       ELSE /\ u' = IF fs.readonly
                    THEN [u EXCEPT !.status = st, !.fbi_dir = fs.is_dir]
                    ELSE Classify([u EXCEPT !.status = st], fs.is_dir)
            /\ u_pc' = IF fs.readonly THEN "ro_open" ELSE "open"
            /\ UNCHANGED u_result
  /\ u_hist' = [u_hist EXCEPT !.branch = IF u_pc' = "done" THEN "query" ELSE @]
  /\ UNCHANGED fs
  /\ UNCHANGED notUnlink

\* lines 292-295: open the read-only target to write its attributes
U_RoOpen ==
  /\ u_pc = "ro_open"
  /\ \E st \in AttrOpenStatuses :
       IF NT_SUCCESS(st)
       THEN /\ u' = [u EXCEPT !.status = st]
            /\ u_pc' = "ro_set"
            /\ u_hist' = Opened(u_hist, "attr")
       ELSE /\ u' = Classify([u EXCEPT !.status = st], u.fbi_dir)
            /\ u_pc' = "open"
            /\ UNCHANGED u_hist
  /\ UNCHANGED <<fs, u_result>>
  /\ UNCHANGED notUnlink

\* lines 297-303: NtSetInformationFile (FileBasicInformation) with
\* FileAttributes & ~FILE_ATTRIBUTE_READONLY; a FileAttributes of 0 tells
\* the file system to leave the attributes as they are
PushAttributes(f) ==
  IF f.other_attrs THEN [f EXCEPT !.readonly = FALSE] ELSE f

\* lines 297-305: push the attributes without the read-only bit (the status
\* of the call is not looked at) and close the handle
U_RoSet ==
  /\ u_pc = "ro_set"
  /\ \E status2 \in {STATUS_SUCCESS, STATUS_ACCESS_DENIED} :
       /\ fs' = IF NT_SUCCESS(status2) THEN PushAttributes(fs) ELSE fs
       /\ u_hist' = [NtClose(u_hist, "attr") EXCEPT
                       !.ro_pushed = @ \/ NT_SUCCESS(status2)]
  /\ u_pc' = "ro_requery"
  /\ UNCHANGED <<u, u_result>>
  /\ UNCHANGED notUnlink

\* lines 307-309: redo the query
U_RoRequery ==
  /\ u_pc = "ro_requery"
  /\ \E st \in QueryStatuses :
       IF ~NT_SUCCESS(st)
       THEN Return(st, 1) /\ u' = [u EXCEPT !.status = st]
       ELSE /\ u' = Classify([u EXCEPT !.status = st], fs.is_dir)
            /\ u_pc' = "open"
            /\ UNCHANGED u_result
  /\ u_hist' = [u_hist EXCEPT !.branch = IF u_pc' = "done" THEN "query" ELSE @]
  /\ UNCHANGED fs
  /\ UNCHANGED notUnlink

\* line 345
OpenSleep == 5

\* a test of the budget that lets the loop run out
LastTry_Never(l) == l.try_counter < 1

\* line 331: the sharing violation is returned on the last turn
LastTry(l) == l.try_counter < 2

\* a loop condition that stops one turn early
OpenLoopGoesOn_OneLess(l) == l.try_counter > 1

\* line 321: while (try_counter > 0)
OpenLoopGoesOn(l) == l.try_counter > 0

\* lines 320-347: one turn of the open loop (or its exit at try_counter = 0)
U_Open ==
  /\ u_pc = "open"
  /\ IF OpenLoopGoesOn(u)
     THEN \E st \in OpenStatuses(u.share) :
            IF st = STATUS_SHARING_VIOLATION
            THEN /\ u' = [u EXCEPT !.status = st,
                                   !.share = FILE_SHARE_VALID_FLAGS,
                                   !.try_to_move_away = TRUE,
                                   !.try_counter =
                                      IF LastTry(u) THEN @ ELSE @ - 1]
                 /\ IF LastTry(u)
                    THEN Return(st, 4)
                    ELSE UNCHANGED <<u_pc, u_result>>
            ELSE IF st = STATUS_DELETE_PENDING
            THEN Return(STATUS_SUCCESS, 2) /\ u' = [u EXCEPT !.status = st]
            ELSE IF ~NT_SUCCESS(st)
            THEN Return(st, 3) /\ u' = [u EXCEPT !.status = st]
            ELSE /\ u' = [u EXCEPT !.status = st, !.handle = TRUE]
                 /\ u_pc' = "opened"
                 /\ UNCHANGED u_result
     ELSE u_pc' = "opened" /\ UNCHANGED <<u, u_result>>
  /\ u_hist' = [(IF OpenLoopGoesOn(u) /\ NT_SUCCESS(u'.status)
                  THEN Opened(u_hist, "handle") ELSE u_hist)
                 EXCEPT !.branch =
                  IF u_pc' # "done" THEN @
                  ELSE IF u'.status = STATUS_SHARING_VIOLATION THEN "sharing"
                  ELSE IF u'.status = STATUS_DELETE_PENDING THEN "pending"
                  ELSE "open",
                  !.opens = IF OpenLoopGoesOn(u) THEN @ + 1 ELSE @,
                  !.open_status = IF OpenLoopGoesOn(u) THEN u'.status ELSE @,
                  \* lines 345-346 are reached when the turn neither
                  \* returned nor left the loop
                  !.open_slept = IF OpenLoopGoesOn(u) /\ u_pc' = "open"
                                 THEN @ + OpenSleep ELSE @]
  /\ UNCHANGED fs
  /\ UNCHANGED notUnlink

\* lines 372-379: the budget of the deletion loop, and whether it is entered
EnterLoop(l) ==
  [l EXCEPT !.try_counter = IF l.has_been_moved_away THEN MovedTries
                                                     ELSE DeleteTries]

AfterMove(l) == IF NT_SUCCESS(l.status) THEN "loop" ELSE "close"

\* lines 351-357: on the sharing-violation path, is the directory empty?
U_CheckEmpty ==
  /\ u_pc = "opened"
  /\ IF u.try_to_move_away /\ u.is_dir
     THEN \E st \in DirEmptyStatuses :
            /\ u' = IF NT_SUCCESS(st) THEN [u EXCEPT !.status = st]
                                      ELSE EnterLoop([u EXCEPT !.status = st])
            /\ u_pc' = IF NT_SUCCESS(st) THEN "move" ELSE "close"
            /\ u_hist' = [u_hist EXCEPT !.checked_empty = @ \/ NT_SUCCESS(st)]
     ELSE /\ u' = IF u.try_to_move_away THEN u ELSE EnterLoop(u)
          /\ u_pc' = IF u.try_to_move_away THEN "move" ELSE AfterMove(u)
          /\ UNCHANGED u_hist
  /\ UNCHANGED <<fs, u_result>>
  /\ UNCHANGED notUnlink

\* a rename that leaves the object under its name
Renamed_InPlace(f) == f

\* move_away (lines 70-152) renames the object into the trash directory
Renamed(f) == [f EXCEPT !.where = "trash"]

RenameHist(hist) ==
  [hist EXCEPT !.renamed_unchecked = @ \/ (fs.is_dir /\ ~hist.checked_empty),
               !.renamed_nonempty = @ \/ (fs.is_dir /\ fs.persist > 0)]

\* a call of move_away that returned st
MoveHist(hist, st) ==
  [(IF NT_SUCCESS(st) THEN RenameHist(hist) ELSE hist) EXCEPT !.moves = @ + 1]

\* lines 359-364: move the object away
U_MoveAway ==
  /\ u_pc = "move"
  /\ \E st \in MoveStatuses :
       LET l == [u EXCEPT !.status = st,
                          !.has_been_moved_away = NT_SUCCESS(st)]
       IN /\ u' = EnterLoop(l)
          /\ u_pc' = AfterMove(l)
          /\ fs' = IF NT_SUCCESS(st) THEN Renamed(fs) ELSE fs
          /\ u_hist' = MoveHist(u_hist, st)
  /\ UNCHANGED u_result
  /\ UNCHANGED notUnlink

\* a loop tail that goes on whatever the status
LoopTail_GoOn(l) == [l EXCEPT !.try_counter = @ - 1]

\* lines 417-424: should we loop again?
LoopTail(l) ==
  IF ~NT_SUCCESS(l.status) /\ l.try_again
  THEN [l EXCEPT !.try_counter = @ - 1]
  ELSE [l EXCEPT !.try_again = FALSE]

\* a test that looks at the success of the move, not at the attempt
MoveNow_UnlessMoved(l) == ~l.has_been_moved_away

\* line 397: if (!try_to_move_away)
MoveNow(l) == ~l.try_to_move_away

\* lines 380-392, 414-415: set the delete disposition and decide what to do
U_SetDisposition ==
  /\ u_pc = "loop"
  /\ IF u.try_counter > 0 /\ u.try_again
     THEN \E st \in DispositionStatuses :
            LET l == [u EXCEPT !.status = st] IN
            /\ fs' = IF NT_SUCCESS(st) THEN [fs EXCEPT !.delpend = TRUE] ELSE fs
            /\ IF st = STATUS_DIRECTORY_NOT_EMPTY
               THEN IF ~u.dir_empty
                    THEN u' = l /\ u_pc' = "loop_direm"
                    ELSE u' = LoopTail(l) /\ u_pc' = "loop"
               ELSE IF st = STATUS_CANNOT_DELETE
               THEN /\ u' = l
                    /\ u_pc' = IF MoveNow(u) THEN "loop_move"
                                              ELSE "loop_reopen"
               ELSE /\ u' = LoopTail([l EXCEPT !.try_again =
                                         IF ~NT_SUCCESS(st) THEN FALSE ELSE @])
                    /\ u_pc' = "loop"
     ELSE u_pc' = "close" /\ UNCHANGED <<u, fs>>
  /\ u_hist' =
       IF u_pc' = "close" THEN u_hist
       ELSE [u_hist EXCEPT
               !.disps = @ + 1,
               !.last_disp = u'.status,
               !.moved_before = IF u_hist.disps = 0
                                THEN u.has_been_moved_away ELSE @,
               !.after_stop =
                  @ \/ (u_hist.disps > 0 /\
                          ~(\/ u_hist.last_disp = STATUS_CANNOT_DELETE
                            \/ (u_hist.last_disp = STATUS_DIRECTORY_NOT_EMPTY
                                   /\ u.is_dir /\ u.dir_empty)))]
  /\ UNCHANGED u_result
  /\ UNCHANGED notUnlink

\* lines 389-391: is the directory really not empty?
U_LoopDirEmpty ==
  /\ u_pc = "loop_direm"
  /\ \E st \in DirEmptyStatuses :
       /\ u' = LoopTail([u EXCEPT !.dir_empty = NT_SUCCESS(st),
                                  !.try_again = IF ~NT_SUCCESS(st) THEN FALSE ELSE @])
       /\ u_hist' = [u_hist EXCEPT !.checked_empty = @ \/ NT_SUCCESS(st)]
  /\ u_pc' = "loop"
  /\ UNCHANGED <<fs, u_result>>
  /\ UNCHANGED notUnlink

\* lines 396-402: STATUS_CANNOT_DELETE and not moved away yet: move it now
U_LoopMove ==
  /\ u_pc = "loop_move"
  /\ \E st \in MoveStatuses :
       /\ u' = [u EXCEPT !.status = st,
                         !.try_to_move_away = TRUE,
                         !.has_been_moved_away = @ \/ NT_SUCCESS(st)]
       /\ fs' = IF NT_SUCCESS(st) THEN Renamed(fs) ELSE fs
       /\ u_hist' = MoveHist(u_hist, st)
  /\ u_pc' = "loop_reopen"
  /\ UNCHANGED u_result
  /\ UNCHANGED notUnlink

\* a reopen that closes handle2 whatever NtOpenFile returned
ReopenCloses_Always(st) == TRUE

\* lines 410-411: if (NT_SUCCESS (status)) NtClose (handle2)
ReopenCloses(st) == NT_SUCCESS(st)

\* lines 404-411: reopen through the handle with FILE_DELETE_ON_CLOSE and
\* close at once; the close of such a handle sets the delete disposition
U_LoopReopen ==
  /\ u_pc = "loop_reopen"
  /\ \E st \in ReopenStatuses :
       LET got == IF NT_SUCCESS(st) THEN Opened(u_hist, "handle2") ELSE u_hist
       IN /\ u' = LoopTail([u EXCEPT !.status = st])
          /\ fs' = IF NT_SUCCESS(st) THEN [fs EXCEPT !.delpend = TRUE] ELSE fs
          /\ u_hist' = IF ReopenCloses(st) THEN NtClose(got, "handle2") ELSE got
  /\ u_pc' = "loop"
  /\ UNCHANGED u_result
  /\ UNCHANGED notUnlink

\* the object goes when its last handle closes with the disposition set
LastClose(f) ==
  IF f.delpend /\ f.other = "none" THEN [f EXCEPT !.where = "gone"] ELSE f

\* a final result that reports success whenever the deletion failed
FinalResult_AnyFailure(l) ==
  IF ~NT_SUCCESS(l.status)
  THEN [last_error_code |-> STATUS_SUCCESS, debug |-> 6]
  ELSE [last_error_code |-> l.status, debug |-> 0]

\* a final result that is the status of the last call
FinalResult_LastStatus(l) == [last_error_code |-> l.status, debug |-> 0]

\* a final result that reports the moved-away case without its debug code
FinalResult_NoDebug(l) ==
  IF l.has_been_moved_away /\ ~NT_SUCCESS(l.status)
  THEN [last_error_code |-> STATUS_SUCCESS, debug |-> 0]
  ELSE [last_error_code |-> l.status, debug |-> 0]

\* lines 428-431: moved away but not deleted is reported as success
FinalResult(l) ==
  IF l.has_been_moved_away /\ ~NT_SUCCESS(l.status)
  THEN [last_error_code |-> STATUS_SUCCESS, debug |-> 6]
  ELSE [last_error_code |-> l.status, debug |-> 0]

\* lines 427-431: close the handle and return
U_Close ==
  /\ u_pc = "close"
  /\ u' = [u EXCEPT !.handle = FALSE]
  /\ fs' = LastClose(fs)
  /\ Return(FinalResult(u).last_error_code, FinalResult(u).debug)
  /\ u_hist' = [NtClose(u_hist, "handle") EXCEPT !.branch =
                  IF u.has_been_moved_away /\ ~NT_SUCCESS(u.status)
                  THEN "moved" ELSE "plain"]
  /\ UNCHANGED notUnlink

(***************************************************************************)
(*                    Other processes                                      *)
(***************************************************************************)
\* safe_unlink holds a handle on the object
OurHandle == u.handle \/ u_pc = "ro_set"

\* the other process closes its handle
OtherClose ==
  /\ fs.other # "none"
  /\ fs' = IF OurHandle THEN [fs EXCEPT !.other = "none"]
                        ELSE LastClose([fs EXCEPT !.other = "none"])
  /\ UNCHANGED <<u_pc, u, u_result, u_hist>>
  /\ UNCHANGED notUnlink

\* the other process sets the delete disposition through its handle
OtherMarkDelete ==
  /\ fs.other = "delete"
  /\ fs.where # "gone" /\ ~fs.delpend /\ ~fs.readonly
  /\ fs.persist + fs.pending = 0
  /\ fs' = [fs EXCEPT !.delpend = TRUE]
  /\ UNCHANGED <<u_pc, u, u_result, u_hist>>
  /\ UNCHANGED notUnlink

\* a delete-pending entry of the directory goes away
EntryGone ==
  /\ fs.pending > 0
  /\ fs' = [fs EXCEPT !.pending = @ - 1]
  /\ UNCHANGED <<u_pc, u, u_result, u_hist>>
  /\ UNCHANGED notUnlink

\* safe_unlink is not running
IdleUnlink ==
  /\ fs = [where |-> "gone", is_dir |-> FALSE, readonly |-> FALSE,
           other_attrs |-> FALSE, delpend |-> FALSE, other |-> "none", persist |-> 0, pending |-> 0]
  /\ u_pc = "idle"
  /\ u = UnlinkLocals
  /\ u_result = NoResult
  /\ u_hist = UnlinkHist

StartUnlink ==
  /\ fs \in FsStates
  /\ u_pc = "query"
  /\ u = UnlinkLocals
  /\ u_result = NoResult
  /\ u_hist = UnlinkHist

UnlinkStep ==
  \/ U_Query \/ U_RoOpen \/ U_RoSet \/ U_RoRequery \/ U_Open
  \/ U_CheckEmpty \/ U_MoveAway \/ U_SetDisposition \/ U_LoopDirEmpty
  \/ U_LoopMove \/ U_LoopReopen \/ U_Close
  \/ OtherClose \/ OtherMarkDelete \/ EntryGone

(***************************************************************************)
(*                    terminals.c : __gnat_expect_poll                     *)
(*                                                                         *)
(* The descriptors are fd[1..num_fd]; a descriptor is named by its index.  *)
(* p_env says which of them have data to read (rd), have an exceptional    *)
(* condition pending (ex), carry a TIOCCLOSE request (closing, HP-UX) and  *)
(* are not usable at all (bad: select fails with EBADF, PeekNamedPipe      *)
(* fails).                                                                 *)
(***************************************************************************)
\* the three builds of the function: lines 669-747 without and with
\* __hpux__, and lines 1473-1518 (WIN32)
Builds == {"posix", "hpux", "win32"}

\* the timeouts tried, in milliseconds
Timeouts == {-1000, -2, -1, 0, 1, 50, 120}

\* C division and remainder of ints (truncation towards zero)
CDiv(a, b) == IF a >= 0 THEN a \div b ELSE -((-a) \div b)
CRem(a, b) == a - b * CDiv(a, b)

\* lines 681-682: the timeval handed to select
Timeval(timeout) ==
  [tv_sec |-> CDiv(timeout, 1000), tv_usec |-> CRem(timeout, 1000) * 1000]

\* line 699: select waits for ever only for a timeout of exactly -1
SelectBlocks(timeout) == timeout = -1

\* select refuses a negative timeval with EINVAL
TimevalValid(tv) == tv.tv_sec >= 0 /\ tv.tv_usec >= 0

Fds == 1..p_in.num_fd

\* the smallest element of a non-empty set of indexes
Lowest(S) == CHOOSE i \in S : \A j \in S : i <= j

\* line 1476
MAX_DELAY == 100
\* line 1490: delay = 5
FirstDelay == 5
\* line 1516: delay += 10
DelayStep == 10

PollLocals(is_set) ==
  [is_set |-> is_set, ready |-> 0, delay |-> 0, timeout |-> p_in.timeout,
   infinite |-> 0, ret |-> 0]

PollHist ==
  [\* the wait ended because the time ran out with no data
   timed_out |-> FALSE,
   \* a descriptor was unusable, or HP-UX met a TIOCCLOSE request
   error |-> FALSE,
   \* select refused the timeval
   einval |-> FALSE,
   \* the sleeps of the Windows loop, and their total in milliseconds
   sleeps |-> 0, slept |-> 0,
   \* the first and the last sleep of the Windows loop, in milliseconds
   first_sleep |-> 0, last_sleep |-> 0]

PollReturn(l, value) ==
  /\ p' = [l EXCEPT !.ret = value]
  /\ p_pc' = "done"

\* lines 705-714: is_set after a select that found something
Flagged(rset) == [i \in Fds |-> IF i \in rset THEN 1 ELSE 0]

\* lines 684-746, POSIX build: one turn of the do-while loop
P_Select ==
  /\ p_pc = "call"
  /\ p_in.build = "posix"
  /\ IF p_env.bad # {}
     THEN /\ PollReturn([p EXCEPT !.ready = -1], -1)
          /\ p_hist' = [p_hist EXCEPT !.error = TRUE]
     ELSE IF ~SelectBlocks(p_in.timeout) /\ ~TimevalValid(Timeval(p_in.timeout))
     THEN /\ PollReturn([p EXCEPT !.ready = -1], -1)
          /\ p_hist' = [p_hist EXCEPT !.einval = TRUE]
     ELSE IF p_env.rd \cup p_env.ex # {}
     \* select returns the number of bits set in the two sets together
     THEN LET ready == Cardinality(p_env.rd) + Cardinality(p_env.ex)
          IN /\ PollReturn([p EXCEPT !.ready = ready,
                                     !.is_set = Flagged(p_env.rd)], ready)
             /\ UNCHANGED p_hist
     ELSE /\ ~SelectBlocks(p_in.timeout)
          /\ PollReturn([p EXCEPT !.ready = 0], 0)
          /\ p_hist' = [p_hist EXCEPT !.timed_out = TRUE]
  /\ UNCHANGED <<p_in, p_env>>
  /\ UNCHANGED notPoll

\* lines 684-746, HP-UX build: the exceptional conditions are inspected and
\* taken off ready; a TIOCCLOSE request is an error unless data was received
P_SelectHpux ==
  /\ p_pc = "call"
  /\ p_in.build = "hpux"
  /\ IF p_env.bad # {}
     THEN /\ PollReturn([p EXCEPT !.ready = -1], -1)
          /\ p_hist' = [p_hist EXCEPT !.error = TRUE]
          /\ UNCHANGED p_env
     ELSE IF ~SelectBlocks(p_in.timeout) /\ ~TimevalValid(Timeval(p_in.timeout))
     THEN /\ PollReturn([p EXCEPT !.ready = -1], -1)
          /\ p_hist' = [p_hist EXCEPT !.einval = TRUE]
          /\ UNCHANGED p_env
     ELSE IF p_env.rd \cup p_env.ex # {}
     THEN LET ready == Cardinality(p_env.rd) + Cardinality(p_env.ex)
              l == [p EXCEPT !.is_set = Flagged(p_env.rd)]
              received == p_env.rd # {}
              closes == p_env.ex \cap p_env.closing
          IN IF ~received /\ closes # {}
             \* TIOCREQSET answers the requests up to the TIOCCLOSE one
             THEN /\ PollReturn([l EXCEPT !.ready =
                       ready - Cardinality({i \in p_env.ex : i < Lowest(closes)})],
                       -1)
                  /\ p_hist' = [p_hist EXCEPT !.error = TRUE]
                  /\ p_env' = [p_env EXCEPT
                                 !.ex = {i \in @ : i > Lowest(closes)},
                                 !.closing = {i \in @ : i > Lowest(closes)}]
             ELSE /\ IF SelectBlocks(p_in.timeout) /\ ready - Cardinality(p_env.ex) = 0
                     THEN /\ p' = [l EXCEPT !.ready = 0]
                          /\ UNCHANGED p_pc
                     ELSE PollReturn([l EXCEPT !.ready = ready - Cardinality(p_env.ex)],
                                     ready - Cardinality(p_env.ex))
                  /\ p_env' = IF received THEN p_env ELSE [p_env EXCEPT !.ex = {}]
                  /\ UNCHANGED p_hist
     ELSE /\ ~SelectBlocks(p_in.timeout)
          /\ PollReturn([p EXCEPT !.ready = 0], 0)
          /\ p_hist' = [p_hist EXCEPT !.timed_out = TRUE]
          /\ UNCHANGED p_env
  /\ UNCHANGED p_in
  /\ UNCHANGED notPoll

\* lines 1482-1493, Windows build: clear is_set, set the first delay
W_Enter ==
  /\ p_pc = "call"
  /\ p_in.build = "win32"
  /\ p' = [p EXCEPT !.is_set = [i \in Fds |-> 0],
                    !.delay = FirstDelay,
                    !.infinite = IF p_in.timeout < 0 THEN 1 ELSE 0]
  /\ p_pc' = "peek"
  /\ UNCHANGED <<p_in, p_env, p_hist>>
  /\ UNCHANGED notPoll

\* lines 1515-1516
NextDelay(delay) == IF delay < MAX_DELAY THEN delay + DelayStep ELSE delay

\* a test of the budget that gives up one first delay too early
OutOfTime_Early(l) == l.infinite = 0 /\ l.timeout <= FirstDelay

\* line 1509
OutOfTime(l) == l.infinite = 0 /\ l.timeout <= 0

\* lines 1495-1517: one turn of the while loop: peek at every pipe in order,
\* return at the first failure or the first pipe with data, else sleep
W_Peek ==
  /\ p_pc = "peek"
  /\ LET hits == p_env.bad \cup p_env.rd IN
     IF hits # {}
     THEN IF Lowest(hits) \in p_env.bad
          THEN /\ PollReturn(p, -1)
               /\ p_hist' = [p_hist EXCEPT !.error = TRUE]
          ELSE /\ PollReturn([p EXCEPT !.is_set[Lowest(hits)] = 1], 1)
               /\ UNCHANGED p_hist
     ELSE IF OutOfTime(p)
     THEN /\ PollReturn(p, 0)
          /\ p_hist' = [p_hist EXCEPT !.timed_out = TRUE]
     ELSE /\ p_hist.sleeps < MaxSleeps
          /\ p' = [p EXCEPT !.timeout = @ - p.delay,
                            !.delay = NextDelay(@)]
          /\ p_hist' = [p_hist EXCEPT !.sleeps = @ + 1, !.slept = @ + p.delay,
                                      !.first_sleep = IF p_hist.sleeps = 0
                                                      THEN p.delay ELSE @,
                                      !.last_sleep = p.delay]
          /\ UNCHANGED p_pc
  /\ UNCHANGED <<p_in, p_env>>
  /\ UNCHANGED notPoll

\* data arrives on a descriptor while poll waits
DataArrives ==
  /\ p_pc \in {"call", "peek"}
  /\ \E i \in Fds \ p_env.rd : p_env' = [p_env EXCEPT !.rd = @ \cup {i}]
  /\ UNCHANGED <<p_in, p_pc, p, p_hist>>
  /\ UNCHANGED notPoll

\* poll is not running
IdlePoll ==
  /\ p_in = [build |-> "posix", num_fd |-> 0, timeout |-> 0]
  /\ p_env = [rd |-> {}, ex |-> {}, closing |-> {}, bad |-> {}]
  /\ p_pc = "idle"
  /\ p = [is_set |-> <<>>, ready |-> 0, delay |-> 0, timeout |-> 0,
          infinite |-> 0, ret |-> 0]
  /\ p_hist = PollHist

\* a call of poll: any build, one or more descriptors, any timeout, the
\* is_set array as the caller left it (not initialised by the binding,
\* line 1573)
StartPoll ==
  /\ p_in \in [build : Builds, num_fd : 1..MaxFds, timeout : Timeouts]
  /\ p_env \in {e \in [rd : SUBSET Fds, ex : SUBSET Fds,
                       closing : SUBSET Fds, bad : SUBSET Fds] :
                  /\ e.closing \subseteq e.ex
                  /\ p_in.build # "hpux" => e.closing = {}
                  /\ p_in.build = "win32" => e.ex = {}
                  /\ e.bad # {} => e.bad = Fds /\ e.rd = {} /\ e.ex = {}}
  /\ p_pc = "call"
  /\ p \in {PollLocals(s) : s \in [Fds -> {0, 1}]}
  /\ p_hist = PollHist

PollStep == P_Select \/ P_SelectHpux \/ W_Enter \/ W_Peek \/ DataArrives

(***************************************************************************)
(*        terminals.c, POSIX build : the term_handler and its child        *)
(*                                                                         *)
(* One handle is followed from gvd_setup_communication to                  *)
(* gvd_free_process.  non_blocking_spawn forks between the two; the child  *)
(* process works on its own copy of the handle and of the descriptors.     *)
(***************************************************************************)
\* lines 166-176: USE_GETPT, USE_GETPTY and USE_CLONE_DEVICE open the master
\* side only, USE_OPENPTY opens both sides
PtyBuilds == {"getpt", "openpty"}

\* the descriptor numbers the system hands out for the two sides
MasterFd == 3
SlaveFd == 4

\* the pid fork returns in the parent
ChildPid == 7

\* a handle that does not exist (*desc = NULL)
NoDesc == [master_fd |-> -1, slave_fd |-> -1, child_pid |-> -1]

\* status is the wait status of the process once it has ended
NoChild == [pc |-> "none", pid |-> -1, desc |-> NoDesc, open |-> {},
            life |-> "none", status |-> 0]

\* the exit codes a child may end with
ExitCodes == {0, 1, 3}

\* signal numbers
SIGINT == 2
SIGQUIT == 3
SIGKILL == 9
SIGSEGV == 11
SIGTSTP == 20

\* the wait status of a process that called exit (code), and of one that
\* was ended by signal sig
ExitedStatus(code) == (code % 256) * 256
SignaledStatus(sig) == sig

\* <sys/wait.h>
WIFEXITED(status) == status % 128 = 0
WEXITSTATUS(status) == (status \div 256) % 256

HandleHist ==
  [\* the calls that read a member through the null handle
   null_used |-> {},
   \* close was called on a descriptor the handle had closed already
   double_close |-> FALSE,
   \* gvd_waitpid has returned
   waited |-> FALSE,
   \* kill (child_pid, ...) was called after gvd_waitpid had returned
   signal_after_wait |-> FALSE,
   \* waitpid (child_pid, ...) was called after gvd_waitpid had returned
   wait_after_wait |-> FALSE,
   \* kill (-1, SIGKILL) was called
   killed_all |-> FALSE,
   \* the signals sent to child_pid
   sent |-> {},
   \* the pids kill was called with
   kill_pids |-> {},
   \* what became of the last ^C written by gvd_interrupt_process
   ctrl_c |-> "none",
   \* the value the last gvd_interrupt_process returned
   interrupt_ret |-> 0,
   \* the value the last gvd_waitpid returned
   wait_ret |-> 0,
   \* the calls of gvd_setup_parent_communication in the parent
   setups |-> 0,
   \* the calls of close on the slave side in the parent
   slave_closes |-> 0,
   \* the first step of allocate_pty_desc that failed: "master",
   \* "ptsname", "grantpt", "unlockpt", or "none"
   alloc_failed |-> "none",
   \* the value gvd_setup_communication returned
   setup_ret |-> 0,
   \* gvd_terminate_process has closed the parent's master descriptor
   master_closed |-> FALSE,
   \* when it did, the program running in the child held a descriptor of
   \* the master side
   master_held |-> FALSE]

\* close (fd) on a table of open descriptors: the table afterwards, and
\* whether the descriptor was closed already
CloseFd(open, fd) == [open |-> open \ {fd}, twice |-> fd \notin open]

\* lines 158-224: allocate_pty_desc, successful
AllocatedDesc(build) ==
  [master_fd |-> MasterFd,
   slave_fd |-> IF build = "openpty" THEN SlaveFd ELSE -1,
   child_pid |-> -1]

\* the steps of allocate_pty_desc that can fail: getting the master side
\* (lines 166-176), ptsname (193), grantpt (207), unlockpt (209)
AllocSteps == {"master", "ptsname", "grantpt", "unlockpt"}

\* lines 180-204: only a missing master side or slave name is looked at;
\* the results of grantpt and unlockpt are dropped
AllocFails(failed) == failed \in {"master", "ptsname"}

\* lines 330-335: gvd_setup_communication
SetupCommunication ==
  /\ h.pc = "start"
  /\ \E failed \in AllocSteps \cup {"none"} :
       /\ IF ~AllocFails(failed)
          THEN /\ desc' = AllocatedDesc(h_in.build)
               /\ h_open' = {MasterFd} \cup
                            (IF h_in.build = "openpty" THEN {SlaveFd} ELSE {})
               /\ h' = [h EXCEPT !.pc = "allocated"]
          \* lines 182-190, 196-204: what was opened is closed, *desc = NULL
          ELSE /\ desc' = NoDesc
               /\ h_open' = {}
               /\ h' = [h EXCEPT !.pc = "failed"]
       /\ h_hist' = [h_hist EXCEPT !.alloc_failed = failed,
                                   !.setup_ret =
                                      IF AllocFails(failed) THEN -1 ELSE 0]
  /\ UNCHANGED <<h_in, child>>
  /\ UNCHANGED notPty

\* line 1549: fork; the child starts with copies of desc and the descriptors
Fork ==
  /\ h.pc = "allocated"
  /\ \E pid \in {-1, ChildPid} :
       /\ h' = [pc |-> "forked", pid |-> pid]
       /\ child' = IF pid = -1 THEN child
                   ELSE [pc |-> "setup", pid |-> 0, desc |-> desc,
                         open |-> h_open, life |-> "running", status |-> 0]
  /\ UNCHANGED <<h_in, desc, h_open, h_hist>>
  /\ UNCHANGED notPty

\* lines 1545-1549: non_blocking_spawn drops the result of
\* gvd_setup_communication and forks with desc = NULL as well
ForkNull ==
  /\ h.pc = "failed"
  /\ \E pid \in {-1, ChildPid} :
       /\ h' = [pc |-> "forked_null", pid |-> pid]
       /\ child' = IF pid = -1 THEN child
                   ELSE [NoChild EXCEPT !.pc = "setup_null", !.pid = 0,
                                        !.life = "running"]
  /\ UNCHANGED <<h_in, desc, h_open, h_hist>>
  /\ UNCHANGED notPty

\* lines 1551-1552 with 416: gvd_setup_child_communication (NULL, ...) reads
\* desc->slave_fd.  Address 0 is not mapped in a process: the read ends the
\* child with SIGSEGV.
ChildSetupNull ==
  /\ child.pc = "setup_null"
  /\ child' = [child EXCEPT !.pc = "crashed", !.life = "zombie",
                            !.status = SignaledStatus(SIGSEGV)]
  /\ h_hist' = [h_hist EXCEPT !.null_used = @ \cup {"child_communication"}]
  /\ UNCHANGED <<h_in, h, desc, h_open>>
  /\ UNCHANGED notPty

\* line 1554 with 359: gvd_setup_parent_communication (NULL, ...) reads
\* desc->master_fd, which ends the calling process with SIGSEGV
ParentSetupNull ==
  /\ h.pc = "forked_null"
  /\ h' = [h EXCEPT !.pc = "crashed"]
  /\ h_hist' = [h_hist EXCEPT !.null_used = @ \cup {"parent_communication"}]
  /\ UNCHANGED <<h_in, desc, h_open, child>>
  /\ UNCHANGED notPty

\* lines 601-609: gvd_new_tty drops the status of allocate_pty_desc and
\* reads desc->master_fd for child_setup_tty, whose result it drops too
NewTty ==
  /\ h.pc = "start"
  /\ \E failed \in AllocSteps \cup {"none"} :
       /\ IF ~AllocFails(failed)
          THEN /\ desc' = AllocatedDesc(h_in.build)
               /\ h_open' = {MasterFd} \cup
                            (IF h_in.build = "openpty" THEN {SlaveFd} ELSE {})
               /\ h' = [h EXCEPT !.pc = "allocated"]
          ELSE /\ desc' = NoDesc
               /\ h_open' = {}
               /\ h' = [h EXCEPT !.pc = "crashed"]
       /\ h_hist' = [h_hist EXCEPT
                       !.alloc_failed = failed,
                       !.setup_ret = IF AllocFails(failed) THEN -1 ELSE 0,
                       !.null_used = IF AllocFails(failed) THEN {"new_tty"}
                                     ELSE @]
  /\ UNCHANGED <<h_in, child>>
  /\ UNCHANGED notPty

\* a parent setup that closes the slave side and keeps its number in desc
ParentCommunication_KeepSlave(d, open, pid) ==
  IF d.slave_fd >= 0
  THEN [desc |-> [d EXCEPT !.child_pid = pid],
        open |-> open \ {d.slave_fd},
        twice |-> d.slave_fd \notin open]
  ELSE [desc |-> [d EXCEPT !.child_pid = pid], open |-> open, twice |-> FALSE]

\* lines 359-371: the body of gvd_setup_parent_communication, for the process
\* whose handle is d, whose descriptors are open and where fork returned pid
ParentCommunication(d, open, pid) ==
  IF d.slave_fd >= 0
  THEN [desc |-> [d EXCEPT !.child_pid = pid, !.slave_fd = -1],
        open |-> CloseFd(open, d.slave_fd).open,
        twice |-> CloseFd(open, d.slave_fd).twice]
  ELSE [desc |-> [d EXCEPT !.child_pid = pid], open |-> open, twice |-> FALSE]

\* a call of gvd_setup_parent_communication in the parent process
ParentCall ==
  LET r == ParentCommunication(desc, h_open, h.pid) IN
    /\ desc' = r.desc
    /\ h_open' = r.open
    /\ h_hist' = [h_hist EXCEPT
                    !.double_close = @ \/ r.twice,
                    !.setups = @ + 1,
                    !.slave_closes = IF desc.slave_fd >= 0 THEN @ + 1 ELSE @]

\* line 1554 in the parent process
ParentSetup ==
  /\ h.pc = "forked"
  /\ ParentCall
  /\ h' = [h EXCEPT !.pc = "live"]
  /\ UNCHANGED <<h_in, child>>
  /\ UNCHANGED notPty

\* lines 349-372: the caller calls gvd_setup_parent_communication again
ParentSetupAgain ==
  /\ h.pc = "live"
  /\ h_hist.setups < MaxSetups
  /\ ParentCall
  /\ UNCHANGED <<h_in, h, child>>
  /\ UNCHANGED notPty

\* lines 409-469: gvd_setup_child_communication in the child process; it
\* returns only when execvp fails
ChildSetup ==
  /\ child.pc = "setup"
  /\ \E exec_ok \in BOOLEAN :
       LET slave == IF child.desc.slave_fd = -1 THEN SlaveFd
                    ELSE child.desc.slave_fd
           opened == child.open \cup {slave}
           closed == IF slave > 2 THEN CloseFd(opened, slave)
                     ELSE [open |-> opened, twice |-> FALSE]
       IN child' = [child EXCEPT !.desc.slave_fd = slave,
                                 !.open = closed.open,
                                 !.pc = IF exec_ok THEN "execd" ELSE "execfailed"]
  /\ UNCHANGED <<h_in, h, desc, h_open, h_hist>>
  /\ UNCHANGED notPty

\* lines 1551-1554: after a failed execvp the child goes on into
\* gvd_setup_parent_communication, with pid = 0
ChildParentSetup ==
  /\ child.pc = "execfailed"
  /\ LET r == ParentCommunication(child.desc, child.open, child.pid) IN
       /\ child' = [child EXCEPT !.desc = r.desc, !.open = r.open,
                                 !.pc = "returned"]
       /\ h_hist' = [h_hist EXCEPT !.double_close = @ \/ r.twice]
  /\ UNCHANGED <<h_in, h, desc, h_open>>
  /\ UNCHANGED notPty

\* the child process ends by itself
ChildExit ==
  /\ child.life = "running"
  /\ child.pc \in {"execd", "returned"}
  /\ \E code \in ExitCodes :
       child' = [child EXCEPT !.life = "zombie", !.status = ExitedStatus(code)]
  /\ UNCHANGED <<h_in, h, desc, h_open, h_hist>>
  /\ UNCHANGED notPty

\* the operations a caller may apply to a handle it holds
Usable == h.pc = "live"

\* gvd_setup_winsize and gvd_terminate_process are also called on a handle
\* on which gvd_setup_parent_communication has not run yet
Held == h.pc \in {"allocated", "live"}

\* kill (desc->child_pid, sig): what the history records of it
Killed(hist, sig) ==
  [hist EXCEPT !.sent = @ \cup {sig},
               !.kill_pids = @ \cup {desc.child_pid},
               !.signal_after_wait = @ \/ hist.waited,
               !.killed_all = @ \/ (desc.child_pid = -1 /\ sig = "SIGKILL")]

\* lines 377-394: gvd_setup_winsize
SetWinsize ==
  /\ Held
  /\ h_hist' = IF desc.child_pid > 0 THEN Killed(h_hist, "SIGWINCH") ELSE h_hist
  /\ UNCHANGED <<h_in, h, desc, h_open, child>>
  /\ UNCHANGED notPty

\* lines 482-510: gvd_interrupt_process writes ^C to the master side and
\* returns 0 whatever write returned
InterruptProcess ==
  /\ Usable
  /\ h_hist' = [h_hist EXCEPT
                  !.ctrl_c = IF desc.master_fd \in h_open THEN "written"
                             ELSE "lost",
                  !.interrupt_ret = 0]
  /\ UNCHANGED <<h_in, h, desc, h_open, child>>
  /\ UNCHANGED notPty

\* lines 300, 310: with ISIG set and VINTR = ^C the terminal turns the ^C
\* written to the master side into SIGINT for the program on the slave side
ChildInterrupted ==
  /\ h_hist.ctrl_c = "written"
  /\ child.life = "running"
  /\ child.pc = "execd"
  /\ child' = [child EXCEPT !.life = "zombie",
                            !.status = SignaledStatus(SIGINT)]
  /\ h_hist' = [h_hist EXCEPT !.ctrl_c = "none"]
  /\ UNCHANGED <<h_in, h, desc, h_open>>
  /\ UNCHANGED notPty

\* lines 529-534: gvd_terminate_process
TerminateProcess ==
  /\ Held
  /\ LET c == CloseFd(h_open, desc.master_fd) IN
       /\ h_open' = c.open
       /\ h_hist' = [Killed(h_hist, "SIGKILL") EXCEPT
                       !.double_close = @ \/ c.twice,
                       !.master_closed = TRUE,
                       !.master_held = child.life = "running"
                                         /\ child.pc = "execd"
                                         /\ desc.master_fd \in child.open]
  /\ child' = IF desc.child_pid > 0 /\ child.life = "running"
              THEN [child EXCEPT !.life = "zombie",
                                 !.status = SignaledStatus(SIGKILL)]
              ELSE child
  /\ UNCHANGED <<h_in, h, desc>>
  /\ UNCHANGED notPty

\* lines 544-551: gvd_waitpid; waitpid blocks while the child runs, and
\* fails with ECHILD when there is no child to wait for
Waitpid ==
  /\ Usable
  /\ ~(desc.child_pid > 0 /\ child.life = "running")
  /\ child' = IF desc.child_pid > 0 /\ child.life = "zombie"
              THEN [child EXCEPT !.life = "reaped"]
              ELSE child
  /\ h_hist' = [h_hist EXCEPT
                  !.waited = TRUE,
                  !.wait_after_wait = @ \/ h_hist.waited,
                  \* int status = 0 stays as it is when waitpid fails
                  !.wait_ret =
                     IF desc.child_pid > 0 /\ child.life = "zombie"
                     THEN WEXITSTATUS(child.status) ELSE WEXITSTATUS(0)]
  /\ UNCHANGED <<h_in, h, desc, h_open>>
  /\ UNCHANGED notPty

\* lines 616-621: gvd_close_tty
CloseTty ==
  /\ Usable
  /\ LET m == IF desc.master_fd >= 0 THEN CloseFd(h_open, desc.master_fd)
              ELSE [open |-> h_open, twice |-> FALSE]
         s == IF desc.slave_fd >= 0 THEN CloseFd(m.open, desc.slave_fd)
              ELSE [open |-> m.open, twice |-> FALSE]
     IN /\ h_open' = s.open
        /\ h_hist' = [h_hist EXCEPT !.double_close = @ \/ m.twice \/ s.twice]
  /\ UNCHANGED <<h_in, h, desc, child>>
  /\ UNCHANGED notPty

\* lines 569-573: gvd_free_process frees the structure
FreeProcess ==
  /\ h.pc \in {"allocated", "live"}
  /\ h' = [h EXCEPT !.pc = "freed"]
  /\ UNCHANGED <<h_in, desc, h_open, child, h_hist>>
  /\ UNCHANGED notPty

\* no handle
IdlePty ==
  /\ h_in = [build |-> "getpt"]
  /\ h = [pc |-> "idle", pid |-> -1]
  /\ desc = NoDesc
  /\ h_open = {}
  /\ child = NoChild
  /\ h_hist = HandleHist

\* before gvd_setup_communication
StartPty ==
  /\ h_in \in [build : PtyBuilds]
  /\ h = [pc |-> "start", pid |-> -1]
  /\ desc = NoDesc
  /\ h_open = {}
  /\ child = NoChild
  /\ h_hist = HandleHist

PtyStep ==
  \/ SetupCommunication \/ NewTty \/ Fork \/ ForkNull
  \/ ParentSetup \/ ParentSetupNull \/ ParentSetupAgain \/ ChildSetupNull
  \/ ChildSetup \/ ChildParentSetup \/ ChildExit \/ ChildInterrupted
  \/ SetWinsize \/ InterruptProcess \/ TerminateProcess
  \/ Waitpid \/ CloseTty \/ FreeProcess

(***************************************************************************)
(*        terminals.c, WIN32 build : the term_handler and its process      *)
(***************************************************************************)
\* GetExitCodeProcess reports STILL_ACTIVE for a process that has not ended
STILL_ACTIVE == 259

\* the value of procinfo.hProcess after a successful CreateProcess
ProcessHandle == 64

\* what an exitcode left unassigned may hold
Unassigned == {0, 1, STILL_ACTIVE}

\* lines 1174-1176: the structure as ZeroMemory leaves it; open holds the
\* handles and descriptors of the structure that are open
NoProcess ==
  [pc |-> "start", pid |-> 0, open |-> {}]

WinHist ==
  [\* CreateProcess failed
   spawn_failed |-> FALSE,
   \* the pid gvd_setup_parent_communication handed to the caller
   pid_out |-> 0,
   \* gvd_waitpid has returned; the value it returned; whether the process
   \* was still running at that moment
   waited |-> FALSE, wait_ret |-> 0, wait_running |-> FALSE,
   \* a handle or descriptor was closed a second time
   double_close |-> FALSE,
   \* the handles the spawned process received by inheritance
   inherited |-> {},
   \* the last interrupt: "none", "delivered", "undelivered"; and the value
   \* gvd_interrupt_process returned for it
   interrupt |-> "none", interrupt_ret |-> 0]

\* CloseHandle / close on every member of hs
CloseAll(open, hs) == [open |-> open \ hs, twice |-> ~(hs \subseteq open)]

\* lines 1169-1179: gvd_setup_communication
W_SetupCommunication ==
  /\ wh.pc = "start"
  /\ wh' = [wh EXCEPT !.pc = "allocated"]
  /\ UNCHANGED <<wproc, w_hist>>
  /\ UNCHANGED notWin

\* lines 1196-1205: both CreatePipe calls are given sec_attrs with
\* bInheritHandle = TRUE, the four ends are open and inheritable
CreatedPipes == {"w_forkin", "w_infd", "w_outfd", "w_forkout"}

\* SetHandleInformation (hObject, HANDLE_FLAG_INHERIT, 0) on the set of
\* inheritable handles: the flag is cleared on an open handle; a value that
\* is no open handle makes the call fail, and its result is not looked at
SetHandleInformation(inheritable, hObject) ==
  IF hObject \in CreatedPipes THEN inheritable \ {hObject} ELSE inheritable

\* lines 1208-1209: the calls are given the addresses of the two members,
\* &process->w_infd and &process->w_outfd.  An address inside the structure
\* is not the value of one of the process's handles.
InheritableAtSpawn ==
  SetHandleInformation(SetHandleInformation(CreatedPipes, "&w_infd"),
                       "&w_outfd")

\* lines 1181-1230 with nt_spawnve (947-1153): create the pipes, start the
\* process (CreateProcess with bInheritHandles = TRUE, lines 1142-1143),
\* close the ends handed to it
W_ChildCommunication ==
  /\ wh.pc = "allocated"
  /\ \E created \in BOOLEAN :
       LET pipes == CreatedPipes \ {"w_forkout", "w_forkin"}
       IN IF created
          THEN /\ wh' = [wh EXCEPT !.pc = "spawned", !.pid = ProcessHandle,
                                   !.open = pipes \cup {"hProcess", "hThread"}]
               /\ wproc' = [life |-> "running", code |-> 0]
               /\ w_hist' = [w_hist EXCEPT !.inherited = InheritableAtSpawn]
          \* EH_Fail: process->pid keeps the 0 of ZeroMemory
          ELSE /\ wh' = [wh EXCEPT !.pc = "spawned", !.open = pipes]
               /\ w_hist' = [w_hist EXCEPT !.spawn_failed = TRUE]
               /\ UNCHANGED wproc
  /\ UNCHANGED notWin

\* lines 1232-1243: gvd_setup_parent_communication
W_ParentCommunication ==
  /\ wh.pc = "spawned"
  /\ wh' = [wh EXCEPT !.pc = "live"]
  /\ w_hist' = [w_hist EXCEPT !.pid_out = wh.pid]
  /\ UNCHANGED wproc
  /\ UNCHANGED notWin

\* the process ends by itself
W_ProcessExit ==
  /\ wproc.life = "running"
  /\ \E code \in ExitCodes : wproc' = [life |-> "exited", code |-> code]
  /\ UNCHANGED <<wh, w_hist>>
  /\ UNCHANGED notWin

\* GetExitCodeProcess (procinfo.hProcess, &exitcode): the values exitcode
\* may hold afterwards; the call fails on a handle that is not open and
\* then leaves exitcode as it was
ExitCodeValues(unassigned) ==
  IF "hProcess" \notin wh.open THEN unassigned
  ELSE IF wproc.life = "running" THEN {STILL_ACTIVE}
  ELSE {wproc.code}

\* lines 1393-1411: gvd_waitpid; WaitForSingleObject is given a timeout of
\* 0 and its result is not looked at
W_Waitpid ==
  /\ wh.pc = "live"
  /\ \E exitcode \in ExitCodeValues(Unassigned) :
       LET c == CloseAll(wh.open, {"hThread", "hProcess"}) IN
         /\ wh' = [wh EXCEPT !.open = c.open]
         /\ w_hist' = [w_hist EXCEPT
                         !.waited = TRUE,
                         !.wait_ret = exitcode,
                         !.wait_running = wproc.life = "running",
                         !.double_close = @ \/ c.twice]
  /\ UNCHANGED wproc
  /\ UNCHANGED notWin

\* lines 1377-1387: gvd_terminate_process
W_TerminateProcess ==
  /\ wh.pc = "live"
  /\ LET c == CloseAll(wh.open, {"w_infd", "w_outfd"}) IN
       /\ wh' = [wh EXCEPT !.open = c.open]
       /\ w_hist' = [w_hist EXCEPT !.double_close = @ \/ c.twice]
  /\ wproc' = IF "hProcess" \in wh.open /\ wproc.life = "running"
              THEN [life |-> "exited", code |-> 1]
              ELSE wproc
  /\ UNCHANGED notWin

\* lines 1291-1373: gvd_interrupt_pid.  console: a console window of the
\* process was found; foreground: there is a foreground window; raised:
\* SetForegroundWindow, or GenerateConsoleCtrlEvent, succeeded
InterruptPid(console, foreground, raised) ==
  IF console
  THEN [delivered |-> foreground /\ raised, rc |-> 0]
  ELSE [delivered |-> raised, rc |-> IF raised THEN 0 ELSE -1]

\* lines 1273-1289: gvd_interrupt_process
W_InterruptProcess ==
  /\ wh.pc = "live"
  /\ \E exit_code \in ExitCodeValues(Unassigned), console, foreground, raised \in BOOLEAN :
       IF "hProcess" \in wh.open /\ exit_code = STILL_ACTIVE
       THEN LET r == InterruptPid(console, foreground, raised) IN
              w_hist' = [w_hist EXCEPT
                           !.interrupt = IF r.delivered THEN "delivered"
                                         ELSE "undelivered",
                           !.interrupt_ret = r.rc]
       ELSE w_hist' = [w_hist EXCEPT !.interrupt = "none", !.interrupt_ret = 0]
  /\ UNCHANGED <<wh, wproc>>
  /\ UNCHANGED notWin

\* lines 1417-1421: gvd_free_process
W_FreeProcess ==
  /\ wh.pc \in {"allocated", "live"}
  /\ wh' = [wh EXCEPT !.pc = "freed"]
  /\ UNCHANGED <<wproc, w_hist>>
  /\ UNCHANGED notWin

\* no Windows handle
IdleWin ==
  /\ wh = [NoProcess EXCEPT !.pc = "idle"]
  /\ wproc = [life |-> "none", code |-> 0]
  /\ w_hist = WinHist

\* before gvd_setup_communication
StartWin ==
  /\ wh = NoProcess
  /\ wproc = [life |-> "none", code |-> 0]
  /\ w_hist = WinHist

WinStep ==
  \/ W_SetupCommunication \/ W_ChildCommunication \/ W_ParentCommunication
  \/ W_ProcessExit \/ W_Waitpid \/ W_TerminateProcess
  \/ W_InterruptProcess \/ W_FreeProcess

(***************************************************************************)
(*        terminals.c : nt_spawnve, the command line it builds             *)
(*                                                                         *)
(* A string is a sequence of characters.  nt_spawnve turns argv into the   *)
(* one command line CreateProcess takes; the child's C runtime splits the  *)
(* command line into its argv again.                                       *)
(***************************************************************************)
Quote == "\""

\* line 961
escape_char == "\\"

Chars == {"a", " ", "\t", escape_char, Quote}

\* the argv arrays with n elements and c characters, n + c <= size
RECURSIVE ArgvsUpTo(_)
ArgvsUpTo(size) ==
  IF size = 0 THEN {<<>>}
  ELSE LET smaller == ArgvsUpTo(size - 1) IN
       smaller
       \cup {Append(av, <<>>) : av \in smaller}
       \cup {[av EXCEPT ![Len(av)] = Append(@, c)] :
               av \in {x \in smaller : Len(x) > 0}, c \in Chars}

\* nt_spawnve reads argv[0]: the array is not empty
Argvs == {av \in ArgvsUpTo(MaxArgvSize) : Len(av) > 0}

\* is_gui_app (lines 780-916): -1 when the file cannot be opened or read as
\* an executable image, 1 for a GUI application, 0 for a console one
GuiResults == {-1, 0, 1}

\* lines 1056-1063
need_quotes(arg) ==
  \/ Len(arg) = 0
  \/ \E i \in 1..Len(arg) : arg[i] \in {" ", "\t", Quote}

RECURSIVE Escapes(_)
Escapes(run) == IF run = 0 THEN <<>> ELSE <<escape_char>> \o Escapes(run - 1)

\* a quoting loop that leaves the escape characters before the enclosing
\* quote as they are
RECURSIVE QuoteFrom_NoFinalDoubling(_, _, _)
QuoteFrom_NoFinalDoubling(arg, i, escape_char_run) ==
  IF i > Len(arg)
  THEN <<Quote>>
  ELSE (IF arg[i] = Quote
        THEN Escapes(escape_char_run) \o <<escape_char>> ELSE <<>>)
       \o <<arg[i]>>
       \o QuoteFrom_NoFinalDoubling(arg, i + 1,
             IF arg[i] = escape_char THEN escape_char_run + 1 ELSE 0)

\* lines 1075-1101: the characters of arg from the i-th on, and the closing
\* quote; the escape characters before a quote are doubled and the quote
\* gets one of its own
RECURSIVE QuoteFrom(_, _, _)
QuoteFrom(arg, i, escape_char_run) ==
  IF i > Len(arg)
  THEN Escapes(escape_char_run) \o <<Quote>>
  ELSE (IF arg[i] = Quote
        THEN Escapes(escape_char_run) \o <<escape_char>> ELSE <<>>)
       \o <<arg[i]>>
       \o QuoteFrom(arg, i + 1,
             IF arg[i] = escape_char THEN escape_char_run + 1 ELSE 0)

\* one argument, quoted by the loop without the final doubling
PutArg_NoFinalDoubling(arg) ==
  (IF need_quotes(arg) THEN <<Quote>> \o QuoteFrom_NoFinalDoubling(arg, 1, 0)
                       ELSE arg)
  \o <<" ">>

\* lines 1065-1108: one argument and the space after it
PutArg(arg) ==
  (IF need_quotes(arg) THEN <<Quote>> \o QuoteFrom(arg, 1, 0) ELSE arg)
  \o <<" ">>

RECURSIVE PutArgs(_, _)
PutArgs(argv, n) ==
  IF n > Len(argv) THEN <<>> ELSE PutArg(argv[n]) \o PutArgs(argv, n + 1)

CmdPrefix == <<"c", "m", "d", " ", "/", "c", " ">>

\* lines 1046-1110: what the second pass writes, the space after the last
\* argument included
SecondPass(argv, is_gui) ==
  (IF is_gui = -1 THEN CmdPrefix ELSE <<>>) \o PutArgs(argv, 1)

\* lines 1034-1111: "cmd /c " when the application type is unknown, the
\* arguments, and the last space overwritten by the terminator
Cmdline(argv, is_gui) ==
  LET all == SecondPass(argv, is_gui)
  IN SubSeq(all, 1, Len(all) - 1)

\* lines 996-1019: the for loop of the first pass over arg from the i-th
\* character on: what it adds to arglen, and escape_char_run at its end
RECURSIVE CountFrom(_, _, _)
CountFrom(arg, i, escape_char_run) ==
  IF i > Len(arg)
  THEN [added |-> 0, escape_char_run |-> escape_char_run]
  ELSE LET rest == CountFrom(arg, i + 1,
                     IF arg[i] = escape_char THEN escape_char_run + 1 ELSE 0)
       IN [rest EXCEPT !.added =
             @ + (IF arg[i] = Quote THEN 1 + escape_char_run ELSE 0)]

\* a count that leaves out the escape characters doubled before the
\* enclosing quote
ArgLength_NoFinalRun(arg) ==
  CountFrom(arg, 1, 0).added
  + (IF need_quotes(arg) THEN 2 ELSE 0)
  + Len(arg) + 1

\* lines 988-1030: what one argument adds to arglen in the first pass
\* (need_quotes is set there as in the second pass)
ArgLength(arg) ==
  CountFrom(arg, 1, 0).added
  + (IF need_quotes(arg) THEN 2 + CountFrom(arg, 1, 0).escape_char_run ELSE 0)
  + Len(arg) + 1

RECURSIVE ArgLengths(_, _)
ArgLengths(argv, n) ==
  IF n > Len(argv) THEN 0 ELSE ArgLength(argv[n]) + ArgLengths(argv, n + 1)

\* lines 985-1042: arglen after the first pass
arglen(argv, is_gui) ==
  ArgLengths(argv, 1) + (IF is_gui = -1 THEN Len(CmdPrefix) ELSE 0)

\* nt_spawnve up to CreateProcess; the terminator (line 1111) goes over the
\* last byte the second pass has written
A_Spawn ==
  /\ a_pc = "start"
  /\ \E is_gui \in GuiResults :
       /\ a_gui' = is_gui
       /\ a_cmdline' = Cmdline(a_argv, is_gui)
       \* line 1044: malloc (arglen + 1)
       /\ a_mem' = [allocated |-> arglen(a_argv, is_gui) + 1,
                    written |-> Len(SecondPass(a_argv, is_gui))]
  /\ a_pc' = "spawned"
  /\ UNCHANGED <<a_argv, a_parsed>>
  /\ UNCHANGED notArgv

(* The child: the Microsoft C runtime's command line parsing.              *)
Blank(c) == c \in {" ", "\t"}

\* the program name ends at the first blank outside double quotes; in it a
\* backslash is an ordinary character
RECURSIVE ProgramEnd(_, _, _)
ProgramEnd(s, i, in_quotes) ==
  IF i > Len(s) \/ (Blank(s[i]) /\ ~in_quotes) THEN i
  ELSE ProgramEnd(s, i + 1, IF s[i] = Quote THEN ~in_quotes ELSE in_quotes)

\* the double quotes round parts of the program name are dropped
ProgramName(s) ==
  SelectSeq(SubSeq(s, 1, ProgramEnd(s, 1, FALSE) - 1), LAMBDA c : c # Quote)

\* the length of the run of backslashes that starts at s[i]
RECURSIVE RunLength(_, _)
RunLength(s, i) ==
  IF i > Len(s) \/ s[i] # "\\" THEN 0 ELSE 1 + RunLength(s, i + 1)

\* the arguments after the program name: blanks outside quotes separate
\* them; 2n backslashes before a quote give n backslashes and the quote
\* opens or closes a quoted part; 2n+1 backslashes before a quote give n
\* backslashes and the quote itself; other backslashes stand for themselves;
\* two quotes inside a quoted part give one quote
RECURSIVE ParseArgs(_, _, _, _, _)
ParseArgs(s, i, cur, in_arg, in_quotes) ==
  IF i > Len(s) THEN (IF in_arg THEN <<cur>> ELSE <<>>)
  ELSE IF Blank(s[i]) /\ ~in_quotes
  THEN (IF in_arg THEN <<cur>> ELSE <<>>)
       \o ParseArgs(s, i + 1, <<>>, FALSE, FALSE)
  ELSE IF s[i] = "\\"
  THEN LET n == RunLength(s, i)
           j == i + n
       IN IF j <= Len(s) /\ s[j] = Quote
          THEN IF n % 2 = 1
               THEN ParseArgs(s, j + 1, cur \o Escapes(n \div 2) \o <<Quote>>,
                              TRUE, in_quotes)
               ELSE ParseArgs(s, j, cur \o Escapes(n \div 2), TRUE, in_quotes)
          ELSE ParseArgs(s, j, cur \o Escapes(n), TRUE, in_quotes)
  ELSE IF s[i] = Quote
  THEN IF in_quotes /\ i + 1 <= Len(s) /\ s[i + 1] = Quote
       THEN ParseArgs(s, i + 2, Append(cur, Quote), TRUE, TRUE)
       ELSE ParseArgs(s, i + 1, cur, TRUE, ~in_quotes)
  ELSE ParseArgs(s, i + 1, Append(cur, s[i]), TRUE, in_quotes)

ParseCommandLine(s) ==
  <<ProgramName(s)>> \o ParseArgs(s, ProgramEnd(s, 1, FALSE), <<>>, FALSE, FALSE)

\* the child starts and its runtime makes argv of the command line
A_ChildParse ==
  /\ a_pc = "spawned"
  /\ a_parsed' = ParseCommandLine(a_cmdline)
  /\ UNCHANGED a_mem
  /\ a_pc' = "parsed"
  /\ UNCHANGED <<a_argv, a_gui, a_cmdline>>
  /\ UNCHANGED notArgv

IdleArgv ==
  /\ a_argv = <<>>
  /\ a_gui = 0
  /\ a_pc = "idle"
  /\ a_cmdline = <<>>
  /\ a_parsed = <<>>
  /\ a_mem = [allocated |-> 0, written |-> 0]

StartArgv ==
  /\ a_argv \in Argvs
  /\ a_gui = 0
  /\ a_pc = "start"
  /\ a_cmdline = <<>>
  /\ a_parsed = <<>>
  /\ a_mem = [allocated |-> 0, written |-> 0]

ArgvStep == A_Spawn \/ A_ChildParse

(***************************************************************************)
(*        terminals.c : child_setup_tty, the pty's line discipline         *)
(*                                                                         *)
(* The child sets the slave side's termios settings with child_setup_tty   *)
(* and then copies its standard input to its standard output.  The parent  *)
(* writes bytes to the master side (in_fd) and reads the master side       *)
(* (out_fd).  The line discipline handles each byte written by the parent  *)
(* under the settings in force when it arrives.                            *)
(***************************************************************************)
LF == 10
CR == 13
CDISABLE == 0

\* the bytes the parent writes: a letter, LF, CR, Control-C, Control-D
Bytes == {97, LF, CR, 3, 4}

\* the settings a new pty comes with, and settings with every mode off
Inherited ==
  {[icanon |-> b, isig |-> b, echo |-> b, opost |-> b, onlcr |-> b,
    icrnl |-> b, veof |-> 4, vintr |-> 3, vquit |-> 28, vsusp |-> 26,
    verase |-> 127, vkill |-> 21] : b \in BOOLEAN}

\* settings that keep the mapping of LF to CR-LF
SetupTty_KeepOnlcr(s) ==
  [s EXCEPT !.opost = TRUE,
            !.echo = FALSE, !.isig = TRUE, !.icanon = TRUE,
            !.veof = 4, !.verase = CDISABLE, !.vkill = CDISABLE,
            !.vquit = 28, !.vintr = 3, !.vsusp = 26]

\* lines 282-311: the settings child_setup_tty makes of those tcgetattr
\* gave; c_iflag keeps every bit but IUCLC and ISTRIP
SetupTty(s) ==
  [s EXCEPT !.opost = TRUE, !.onlcr = FALSE,
            !.echo = FALSE, !.isig = TRUE, !.icanon = TRUE,
            !.veof = 4, !.verase = CDISABLE, !.vkill = CDISABLE,
            !.vquit = 28, !.vintr = 3, !.vsusp = 26]

\* child_setup_tty (lines 269-316), called at line 452 with its result
\* dropped; tcgetattr and tcsetattr can fail
T_Setup ==
  /\ t_pc = "setup"
  /\ \E get_ok \in BOOLEAN, set_ok \in BOOLEAN :
       /\ t_tio' = IF get_ok /\ set_ok THEN SetupTty(t_tio) ELSE t_tio
       /\ t_hist' = [t_hist EXCEPT !.installed = get_ok /\ set_ok]
  /\ t_pc' = "run"
  /\ UNCHANGED <<t_written, t_line, t_ready, t_out, t_read, t_child>>
  /\ UNCHANGED notTty

\* output processing: with OPOST and ONLCR a LF leaves as CR LF
RECURSIVE Post(_, _)
Post(tio, bytes) ==
  IF bytes = <<>> THEN <<>>
  ELSE (IF tio.opost /\ tio.onlcr /\ Head(bytes) = LF THEN <<CR, LF>>
                                                      ELSE <<Head(bytes)>>)
       \o Post(tio, Tail(bytes))

\* input processing: ICRNL turns CR into LF
Mapped(tio, b) == IF tio.icrnl /\ b = CR THEN LF ELSE b

\* with ISIG the interrupt, quit and suspend characters raise a signal
Signals(tio, b) == tio.isig /\ Mapped(tio, b) \in {tio.vintr, tio.vquit, tio.vsusp}

\* the signal such a character raises
SignalOf(tio, b) ==
  IF Mapped(tio, b) = tio.vintr THEN SIGINT
  ELSE IF Mapped(tio, b) = tio.vquit THEN SIGQUIT
  ELSE SIGTSTP

\* one byte written to in_fd: the line discipline takes it
Deliver(b) ==
  LET c == Mapped(t_tio, b) IN
  /\ t_written' = Append(t_written, b)
  /\ IF Signals(t_tio, b)
     THEN \* the queues are flushed and the child gets the signal
          /\ t_line' = <<>>
          /\ t_ready' = <<>>
          /\ t_out' = <<>>
          /\ t_child' = "signaled"
     ELSE /\ IF ~t_tio.icanon
             THEN t_ready' = Append(t_ready, <<c>>) /\ t_line' = t_line
             ELSE IF c = t_tio.veof
             THEN \* the line so far is handed over, an empty one is
                  \* an end of file
                  t_ready' = Append(t_ready, t_line) /\ t_line' = <<>>
             ELSE IF c = LF
             THEN /\ t_ready' = Append(t_ready, Append(t_line, c))
                  /\ t_line' = <<>>
             ELSE t_line' = Append(t_line, c) /\ t_ready' = t_ready
          /\ t_out' = IF t_tio.echo /\ ~(t_tio.icanon /\ c = t_tio.veof)
                      THEN t_out \o Post(t_tio, <<c>>) ELSE t_out
          /\ t_child' = t_child

\* the parent writes one byte to in_fd
T_Write ==
  /\ t_child = "running"
  /\ Len(t_written) < MaxWritten
  /\ \E b \in Bytes : Deliver(b)
  /\ t_hist' = [t_hist EXCEPT !.early = @ \/ t_pc = "setup"]
  /\ UNCHANGED <<t_tio, t_pc, t_read>>
  /\ UNCHANGED notTty

\* the signal numbers send_signal_via_characters is given
SignalNumbers == {SIGINT, SIGQUIT, SIGTSTP, SIGKILL}

\* a function that sends Control-\ for SIGINT
send_signal_via_characters_Quit(signal_number) ==
  IF signal_number = SIGINT THEN <<28>>
  ELSE IF signal_number = SIGQUIT THEN <<28>>
  ELSE IF signal_number = SIGTSTP THEN <<26>>
  ELSE <<>>

\* lines 482-498: the bytes send_signal_via_characters writes to master_fd
send_signal_via_characters(signal_number) ==
  IF signal_number = SIGINT THEN <<3>>
  ELSE IF signal_number = SIGQUIT THEN <<28>>
  ELSE IF signal_number = SIGTSTP THEN <<26>>
  ELSE <<>>

\* send_signal_via_characters (desc, signal_number) on the running child
T_SendSignal ==
  /\ t_child = "running"
  /\ Len(t_written) < MaxWritten
  /\ \E signal_number \in SignalNumbers :
       LET bytes == send_signal_via_characters(signal_number) IN
       /\ IF bytes = <<>>
          THEN UNCHANGED <<t_written, t_line, t_ready, t_out, t_child>>
          ELSE Deliver(bytes[1])
       /\ t_hist' = [t_hist EXCEPT
                       !.early = @ \/ (bytes # <<>> /\ t_pc = "setup"),
                       !.asked = signal_number,
                       !.wrote = bytes,
                       !.in_force = t_hist.installed /\ t_pc = "run",
                       !.raised = IF bytes # <<>> /\ Signals(t_tio, bytes[1])
                                  THEN SignalOf(t_tio, bytes[1]) ELSE 0]
  /\ UNCHANGED <<t_tio, t_pc, t_read>>
  /\ UNCHANGED notTty

\* the child (line 462: the program execvp started) reads what is there
\* and writes it to its standard output; a read of no bytes ends it
T_ChildCopy ==
  /\ t_child = "running"
  /\ t_pc = "run"
  /\ t_ready # <<>>
  /\ t_ready' = Tail(t_ready)
  /\ IF Head(t_ready) = <<>>
     THEN t_child' = "exited" /\ t_out' = t_out
     ELSE t_child' = t_child /\ t_out' = t_out \o Post(t_tio, Head(t_ready))
  /\ UNCHANGED <<t_tio, t_pc, t_written, t_line, t_read, t_hist>>
  /\ UNCHANGED notTty

\* the parent reads out_fd
T_Read ==
  /\ t_out # <<>>
  /\ t_read' = t_read \o t_out
  /\ t_out' = <<>>
  /\ UNCHANGED <<t_tio, t_pc, t_written, t_line, t_ready, t_child, t_hist>>
  /\ UNCHANGED notTty

TtyHist ==
  [\* tcgetattr and tcsetattr both succeeded in child_setup_tty
   installed |-> FALSE,
   \* the parent wrote before child_setup_tty had run
   early |-> FALSE,
   \* the last call of send_signal_via_characters: the signal number it was
   \* given (0: no call yet), the bytes it wrote, whether the settings of
   \* child_setup_tty were in force, the signal the child got (0: none)
   asked |-> 0, wrote |-> <<>>, in_force |-> FALSE, raised |-> 0]

IdleTty ==
  /\ t_tio = [icanon |-> FALSE, isig |-> FALSE, echo |-> FALSE,
              opost |-> FALSE, onlcr |-> FALSE, icrnl |-> FALSE,
              veof |-> 0, vintr |-> 0, vquit |-> 0, vsusp |-> 0,
              verase |-> 0, vkill |-> 0]
  /\ t_pc = "idle"
  /\ t_written = <<>>
  /\ t_line = <<>>
  /\ t_ready = <<>>
  /\ t_out = <<>>
  /\ t_read = <<>>
  /\ t_child = "none"
  /\ t_hist = TtyHist

StartTty ==
  /\ t_tio \in Inherited
  /\ t_pc = "setup"
  /\ t_written = <<>>
  /\ t_line = <<>>
  /\ t_ready = <<>>
  /\ t_out = <<>>
  /\ t_read = <<>>
  /\ t_child = "running"
  /\ t_hist = TtyHist

TtyStep == T_Setup \/ T_Write \/ T_SendSignal \/ T_ChildCopy \/ T_Read

(***************************************************************************)
(*        winlow.c : is_dir_empty on a directory of its own                *)
(*                                                                         *)
(* The directory is the sequence of the statuses NtQueryAttributesFile     *)
(* gives for its real entries, in the order of enumeration.  The           *)
(* enumeration hands them over in pages after "." and "..", and ends with  *)
(* STATUS_NO_MORE_FILES or, after some pages, with a failure.              *)
(***************************************************************************)
\* what NtQueryAttributesFile can say of an entry (line 217): it is there,
\* it is being deleted, it is gone, or it cannot be looked at
EntryStatuses ==
  {STATUS_SUCCESS, STATUS_DELETE_PENDING, STATUS_OBJECT_NAME_NOT_FOUND,
   STATUS_ACCESS_DENIED}

Listings == UNION {[1..n -> EntryStatuses] : n \in 0..MaxListed}

\* the calls of is_dir_empty: the entries, the status of the first
\* NtQueryDirectoryFile (line 168), the pages, and how many of them are
\* handed over before a later NtQueryDirectoryFile (line 234) fails
DirCalls ==
  UNION {UNION {{[entries |-> s, first |-> first, pages |-> pages,
                  handed |-> k] :
                    k \in 1..Len(pages),
                    first \in {STATUS_SUCCESS, STATUS_ACCESS_DENIED}} :
                 pages \in PageSplits(<<STATUS_SUCCESS, STATUS_SUCCESS>> \o s)} :
         s \in Listings}

\* the status that ends the enumeration of call c
LastPageStatus(c) ==
  IF c.handed = Len(c.pages) THEN STATUS_NO_MORE_FILES
                             ELSE STATUS_ACCESS_DENIED

\* is_dir_empty (lines 153-245) on the directory
D_IsDirEmpty ==
  /\ d_pc = "start"
  /\ d_result' = is_dir_empty(d_in.first, SubSeq(d_in.pages, 1, d_in.handed),
                              LastPageStatus(d_in))
  /\ d_pc' = "done"
  /\ UNCHANGED d_in
  /\ UNCHANGED notDir

IdleDir ==
  /\ d_in = [entries |-> <<>>, first |-> STATUS_SUCCESS, pages |-> <<>>,
             handed |-> 0]
  /\ d_pc = "idle"
  /\ d_result = "none"

StartDir ==
  /\ d_in \in DirCalls
  /\ d_pc = "start"
  /\ d_result = "none"

DirStep == D_IsDirEmpty

(***************************************************************************)
(*        winlow.c : move_away, the destination name it builds             *)
(*                                                                         *)
(* A wide string is a sequence of characters.  A LONGLONG is four 16-bit   *)
(* words, the lowest first.  A buffer of MAX_PATH wide characters has the  *)
(* indices 0 .. MAX_PATH - 1.                                              *)
(***************************************************************************)
\* line 38
MAX_PATH == 260

\* line 62
digit_image ==
  <<"0", "1", "2", "3", "4", "5", "6", "7", "8", "9",
    "A", "B", "C", "D", "E", "F">>

\* line 63 (sizeof (trash_dir) counts the null at its end as well)
trash_dir == <<"t", "m", "p", "\\", "t", "r", "a", "s", "h", "\\">>

\* the 16-bit words IndexNumber is made of here
Words == {0, 1, 32768, 43981, 65535}

\* the values of file_internal_info.IndexNumber.QuadPart
FileIds == [1..4 -> Words]

\* the root GetVolumePathNameW gives: a drive, or a long mount point
DriveRoot == <<"C", ":", "\\">>
MountRoot == [i \in 1..230 |-> IF i = 230 THEN "\\" ELSE "m"]

\* the calls: filename.Length in bytes (a name of at most MAX_PATH wide
\* characters, the \??\ in front counted), the root of its volume, the id
MoveCalls ==
  [Length : {2 * 7, 2 * 129, 2 * 130, 2 * MAX_PATH}, root : {DriveRoot},
   file_id : FileIds]
  \cup [Length : {2 * MAX_PATH}, root : {MountRoot}, file_id : FileIds]

NoMove == [status |-> "none", dest |-> <<>>, outside |-> {}]

\* an access to index i of a buffer of MAX_PATH wide characters
Outside(what, i) == IF i >= MAX_PATH THEN {what} ELSE {}

\* lines 93-96: the name is copied, a null is stored behind it and the
\* volume is asked for
M_Volume ==
  /\ m_pc = "start"
  /\ m_pc' = "volume"
  /\ m_out' = [m_out EXCEPT !.outside =
                 \* memcpy (from_buffer, filename.Buffer, filename.Length)
                 Outside("from_buffer copy", (m_in.Length \div 2) - 1)
                 \* from_buffer[filename.Length] = L'\0'
                 \cup Outside("from_buffer null", m_in.Length)]
  /\ UNCHANGED m_in
  /\ UNCHANGED notMove

\* file_id >>= 4 on a LONGLONG; fill is what enters at the top when the
\* value is negative
ShiftRight4(id, fill) ==
  <<(id[1] \div 16) + 4096 * (id[2] % 16),
    (id[2] \div 16) + 4096 * (id[3] % 16),
    (id[3] \div 16) + 4096 * (id[4] % 16),
    (id[4] \div 16) + 4096 * (IF id[4] >= 32768 THEN fill ELSE 0)>>

\* a loop that stores the digit of turn i at place i
RECURSIVE DigitLoop_LowFirst(_, _, _, _)
DigitLoop_LowFirst(id, fill, i, digits) ==
  IF i = 16 THEN digits
  ELSE DigitLoop_LowFirst(ShiftRight4(id, fill), fill, i + 1,
                 [digits EXCEPT ![i + 1] = digit_image[(id[1] % 16) + 1]])

\* lines 122-126: the loop, from turn i on; digits[k] is the character at
\* dest.Buffer[dest.Length / sizeof (WCHAR) + k - 1]
RECURSIVE DigitLoop(_, _, _, _)
DigitLoop(id, fill, i, digits) ==
  IF i = 16 THEN digits
  ELSE DigitLoop(ShiftRight4(id, fill), fill, i + 1,
                 [digits EXCEPT ![15 - i + 1] = digit_image[(id[1] % 16) + 1]])

\* lines 99-151: the destination is built and the file renamed.  A right
\* shift of a negative value fills with ones or with zeros, as the compiler
\* has it.
M_Dest ==
  /\ m_pc = "volume"
  /\ m_pc' = "done"
  /\ \E query \in MoveStatuses, rename \in MoveStatuses, fill \in {0, 15} :
       LET head == <<"\\", "?", "?", "\\">> \o m_in.root \o trash_dir
           digits == DigitLoop(m_in.file_id, fill, 0, [k \in 1..16 |-> "?"])
           \* memcpy of sizeof (trash_dir) bytes: its null goes behind head
           upto_trash == m_out.outside \cup Outside("dest trash_dir", Len(head))
       IN IF ~NT_SUCCESS(query)
          THEN m_out' = [status |-> query, dest |-> head,
                         outside |-> upto_trash]
          ELSE m_out' = [status |-> rename, dest |-> head \o digits,
                         outside |-> upto_trash
                            \cup Outside("dest digits", Len(head) + 15)
                            \cup Outside("dest null", Len(head) + 16)]
  /\ UNCHANGED m_in
  /\ UNCHANGED notMove

\* no call of move_away on its own
IdleMove ==
  /\ m_in = [Length |-> 0, root |-> <<>>, file_id |-> [k \in 1..4 |-> 0]]
  /\ m_pc = "idle"
  /\ m_out = NoMove

\* before move_away
StartMove ==
  /\ m_in \in MoveCalls
  /\ m_pc = "start"
  /\ m_out = NoMove

MoveStep == M_Volume \/ M_Dest

(***************************************************************************)
(*                    Specifications                                       *)
(***************************************************************************)
InitUnlink == StartUnlink /\ IdlePoll /\ IdlePty /\ IdleWin /\ IdleArgv
              /\ IdleTty /\ IdleDir /\ IdleMove

NextUnlink == UnlinkStep

SpecUnlink == InitUnlink /\ [][NextUnlink]_vars

InitPoll == StartPoll /\ IdleUnlink /\ IdlePty /\ IdleWin /\ IdleArgv
              /\ IdleTty /\ IdleDir /\ IdleMove

NextPoll == PollStep

SpecPoll == InitPoll /\ [][NextPoll]_vars

\* the call goes on: a step of the function that can be taken is taken
SpecPollFair ==
  SpecPoll /\ WF_vars(P_Select) /\ WF_vars(P_SelectHpux)
           /\ WF_vars(W_Enter) /\ WF_vars(W_Peek)

InitPty == StartPty /\ IdleUnlink /\ IdlePoll /\ IdleWin /\ IdleArgv
              /\ IdleTty /\ IdleDir /\ IdleMove

NextPty == PtyStep

SpecPty == InitPty /\ [][NextPty]_vars

InitWin == StartWin /\ IdleUnlink /\ IdlePoll /\ IdlePty /\ IdleArgv
              /\ IdleTty /\ IdleDir /\ IdleMove

NextWin == WinStep

SpecWin == InitWin /\ [][NextWin]_vars

InitArgv == StartArgv /\ IdleUnlink /\ IdlePoll /\ IdlePty /\ IdleWin
              /\ IdleTty /\ IdleDir /\ IdleMove

NextArgv == ArgvStep

SpecArgv == InitArgv /\ [][NextArgv]_vars

InitTty == StartTty /\ IdleUnlink /\ IdlePoll /\ IdlePty /\ IdleWin
             /\ IdleArgv /\ IdleDir /\ IdleMove

NextTty == TtyStep

SpecTty == InitTty /\ [][NextTty]_vars

InitDir == StartDir /\ IdleUnlink /\ IdlePoll /\ IdlePty /\ IdleWin
             /\ IdleArgv /\ IdleTty /\ IdleMove

NextDir == DirStep

SpecDir == InitDir /\ [][NextDir]_vars

InitMove == StartMove /\ IdleUnlink /\ IdlePoll /\ IdlePty /\ IdleWin
              /\ IdleArgv /\ IdleTty /\ IdleDir

NextMove == MoveStep

SpecMove == InitMove /\ [][NextMove]_vars

(***************************************************************************)
(*                    Claims about safe_unlink                             *)
(***************************************************************************)
\* safe_unlink reported success (py_safe_unlink, lines 445-447, returns 0)
Succeeded == Returned /\ NT_SUCCESS(u_result.last_error_code)

\* C1 as stated: safe_unlink returns a success status if and only if no
\* directory entry named p is visible in p's parent directory afterwards.
C1_SuccessIffNoEntry ==
  Returned => (NT_SUCCESS(u_result.last_error_code) <=> ~Visible)

\* C1 as amended: when safe_unlink returns a success status, the entry named
\* p is gone from its parent directory (deleted or renamed into the trash) or
\* the object is delete-pending, so that the entry goes when the last handle
\* on it is closed.
C1_SuccessGoneOrPending ==
  Succeeded => (~Visible \/ fs.delpend)

\* C1's case: success is returned while the entry is still listed, because
\* another process holds the delete-pending object open
C1_Witness == Succeeded /\ Visible /\ fs.delpend /\ fs.other # "none"

\* C2: safe_unlink called on a directory that still contains a persisting
\* entry never returns a success status, whichever statuses the open and the
\* delete-disposition calls return on the way.
C2_NonEmptyDirNeverSucceeds ==
  (Returned /\ fs.is_dir /\ fs.persist > 0)
    => ~NT_SUCCESS(u_result.last_error_code)

\* C3: safe_unlink renames a directory into the trash only after is_dir_empty
\* has returned success for it earlier in the same call.
C3_RenameOnlyAfterEmptyCheck ==
  ~u_hist.renamed_unchecked

(***************************************************************************)
(*                    Claims about __gnat_expect_poll                      *)
(***************************************************************************)
PollDone == p_pc = "done"

\* the entries of is_set equal to 1
SetCount == Cardinality({i \in Fds : p.is_set[i] = 1})

AllClear == \A i \in Fds : p.is_set[i] = 0

\* C4: when poll returns a non-negative value, is_set[i] is 1 exactly for
\* the descriptors that are readable at that moment.
C4_FlagsAreReadability ==
  (PollDone /\ p.ret >= 0) =>
     \A i \in Fds : (p.is_set[i] = 1) <=> (i \in p_env.rd)

\* C5: a positive return value is the number of entries of is_set equal to
\* 1; 0 is returned only on timeout; -1 is returned only on error.
C5_ReturnCountsFlags ==
  PollDone =>
     /\ p.ret > 0 => p.ret = SetCount
     /\ p.ret = 0 => p_hist.timed_out
     /\ p.ret < 0 => (p.ret = -1 /\ (p_hist.error \/ p_hist.einval))

\* C6: poll returns 0 with every entry of is_set 0 when the time ran out
\* with no data, whatever is_set held before, and only then.
C6_TimeoutClearsFlags ==
  PollDone => (p_hist.timed_out <=> (p.ret = 0 /\ AllClear))

\* C7: with any negative timeout poll waits for ever: it does not return
\* 0, does not fail on account of the timeout value, and returns only with
\* a readable descriptor or on a real error.
C7_NegativeTimeoutWaits ==
  (PollDone /\ p_in.timeout < 0) =>
     /\ p.ret # 0
     /\ ~p_hist.einval
     /\ (p.ret > 0 /\ p_env.rd # {}) \/ p_hist.error

(***************************************************************************)
(*                    Claims about the term_handler                        *)
(***************************************************************************)
\* C8: after gvd_free_process no descriptor of the handle is open, whichever
\* of spawn, terminate and waitpid were called before.
C8_FreeReleasesAll == h.pc = "freed" => h_open = {}

\* C9: over any sequence of operations on a handle, the exec-failure path
\* of the child included, no descriptor is closed more than once.
C9_NoDoubleClose == ~h_hist.double_close

\* C10: once gvd_waitpid has returned, no later operation signals or waits
\* on the pid recorded in child_pid.
C10_PidUnusedAfterWait ==
  ~h_hist.signal_after_wait /\ ~h_hist.wait_after_wait


\* C11: gvd_waitpid returns only after the child process has ended, and the
\* value it returns is the exit code of that process, in the POSIX and in
\* the Windows implementation.
C11_WaitpidAfterExit ==
  /\ h_hist.waited => child.life # "running"
  /\ w_hist.waited =>
        /\ ~w_hist.wait_running
        /\ wproc.life = "exited" /\ w_hist.wait_ret = wproc.code

\* C12: for a child ended by a signal the value gvd_waitpid returns differs
\* from the value it returns for a child that exited with status 0.
C12_SignalSeenInWaitpid ==
  (h_hist.waited /\ child.life = "reaped" /\ ~WIFEXITED(child.status))
     => h_hist.wait_ret # WEXITSTATUS(ExitedStatus(0))

\* C17: after gvd_setup_parent_communication has returned, the parent's
\* handle holds no open slave side: slave_fd is -1, the descriptor it named
\* was closed once, and a further call closes nothing.
C17_ParentHoldsNoSlave ==
  h.pc = "live" =>
    /\ desc.slave_fd = -1
    /\ SlaveFd \notin h_open
    /\ h_hist.slave_closes = (IF h_in.build = "openpty" THEN 1 ELSE 0)

\* C17's case: the slave side was open in the parent and the setup was
\* called a second time
C17_Witness ==
  /\ h.pc = "live"
  /\ h_in.build = "openpty"
  /\ h_hist.setups >= 2
  /\ h_hist.slave_closes = 1

\* C19: a child whose execvp failed does not go on into the parent-side
\* setup and back into the caller's code, and the caller is not handed the
\* pid of a successful spawn.
C19_ExecFailureSurfaced ==
  /\ child.pc # "returned"
  /\ (child.pc = "execfailed" /\ h.pc = "live") => desc.child_pid # ChildPid

\* C20: an interrupt that could not be delivered is reported with a
\* non-zero status by gvd_interrupt_process.
C20_LostInterruptReported ==
  /\ h_hist.ctrl_c = "lost" => h_hist.interrupt_ret # 0
  /\ w_hist.interrupt = "undelivered" => w_hist.interrupt_ret # 0

\* C15 as stated: when another process holds the target file open for read
\* without granting share-delete, safe_unlink returns 0 with the file renamed
\* into the trash directory and marked for deletion there, the original name
\* gone.
C15_HeldFileMovedToTrash ==
  (Returned /\ ~fs.is_dir /\ fs.other = "read_noshdel" /\ ~fs.delpend) =>
     /\ Succeeded
     /\ fs.where = "trash"

\* C15 as the code has it: while the other process holds the file without
\* share-delete every open for DELETE is a sharing violation, so safe_unlink
\* fails and the name stays; a file that safe_unlink did move away and
\* reports deleted (status 0, debug 0) is delete-pending in the trash
\* directory while another process holds it and is gone once nobody does.
C15_MovedOnlyWithShareDelete ==
  (Returned /\ ~fs.is_dir) =>
     /\ (fs.other = "read_noshdel" /\ ~fs.delpend) =>
           /\ ~Succeeded
           /\ Visible
           /\ ~u.has_been_moved_away
     /\ (Succeeded /\ u.has_been_moved_away /\ u_result.debug = 0) =>
           IF fs.other = "none" THEN fs.where = "gone"
           ELSE fs.where = "trash" /\ fs.delpend

\* C15's case: the file is held open for read with share-delete, was
\* renamed into the trash directory and waits there for the last close
C15_Witness ==
  /\ Succeeded /\ u_result.debug = 0
  /\ ~fs.is_dir /\ fs.other = "read_shdel"
  /\ u.try_to_move_away /\ u.has_been_moved_away
  /\ fs.where = "trash" /\ fs.delpend

\* C16: for a read-only file that no other process holds, once the
\* attributes without the read-only bit were pushed the file is no longer
\* read-only when it is opened for deletion, and a success return leaves no
\* file behind.
C16_ReadOnlyCleared ==
  (u_hist.ro_pushed /\ ~fs.is_dir /\ fs.other = "none") =>
     /\ u.handle => ~fs.readonly
     /\ Succeeded => fs.where = "gone"

\* C18: each debug code is returned by one branch only and with that
\* branch's status: 0x1 with the failure status of an attribute query, 0x3
\* with the failure status of the open, 0x4 with STATUS_SHARING_VIOLATION,
\* 0x2 and 0x6 with STATUS_SUCCESS, and every other return carries 0.
C18_DebugCodesPairWithBranches ==
  Returned =>
     /\ u_result.debug \in {0, 1, 2, 3, 4, 6}
     /\ u_result.debug = 1 <=> u_hist.branch = "query"
     /\ u_result.debug = 2 <=> u_hist.branch = "pending"
     /\ u_result.debug = 3 <=> u_hist.branch = "open"
     /\ u_result.debug = 4 <=> u_hist.branch = "sharing"
     /\ u_result.debug = 6 <=> u_hist.branch = "moved"
     /\ u_result.debug = 0 <=> u_hist.branch = "plain"
     /\ u_result.debug \in {1, 3} =>
           ~Succeeded /\ u_result.last_error_code = u.status
     /\ u_result.debug = 4 =>
           u_result.last_error_code = STATUS_SHARING_VIOLATION
     /\ u_result.debug \in {2, 6} =>
           u_result.last_error_code = STATUS_SUCCESS
     /\ u_result.debug = 6 => u.has_been_moved_away /\ ~NT_SUCCESS(u.status)

\* C18's case: the moved-away object could not be deleted and the return
\* carries 0x6
C18_Witness ==
  /\ Returned /\ u_result.debug = 6
  /\ fs.where = "trash"

\* the child's runtime has parsed the command line
Parsed == a_pc = "parsed"

ProgramNameSafe(arg) ==
  /\ \A i \in 1..Len(arg) : arg[i] # Quote
  /\ ~(Len(arg) > 0 /\ need_quotes(arg) /\ arg[Len(arg)] = escape_char)

Installed == t_hist.installed /\ ~t_hist.early

IsPrefix(s1, s2) == Len(s1) <= Len(s2) /\ s1 = SubSeq(s2, 1, Len(s1))

\* nothing is on its way: the child has copied what it could read and the
\* parent has read what the child wrote
Drained == t_ready = <<>> /\ t_out = <<>>

RECURSIVE Flatten(_)
Flatten(chunks) ==
  IF chunks = <<>> THEN <<>> ELSE Head(chunks) \o Flatten(Tail(chunks))

\* the bytes the installed discipline takes for itself or changes: the
\* interrupt, quit, suspend and end-of-file characters, and CR when the
\* inherited ICRNL is set
Special(tio) ==
  {tio.vintr, tio.vquit, tio.vsusp, tio.veof}
     \cup (IF tio.icrnl THEN {CR} ELSE {})

C21_AllocFailureReported ==
  h_hist.alloc_failed # "none" =>
     /\ h_hist.setup_ret = -1
     /\ desc = NoDesc
     /\ h_open = {}

\* C22: the open loop calls NtOpenFile at most 10 times and sleeps 5 ms
\* between two consecutive calls and nowhere else; it returns the sharing
\* violation with debug 0x4 exactly when the 10th call also returned
\* STATUS_SHARING_VIOLATION.
C22_OpenLoopBudget ==
  /\ u_hist.opens <= OpenTries
  /\ u_pc = "open" => u_hist.open_slept = OpenSleep * u_hist.opens
  /\ (u_pc # "open" /\ u_hist.opens > 0) =>
        /\ u_hist.open_slept = OpenSleep * (u_hist.opens - 1)
        /\ u_hist.branch = "sharing" <=>
              /\ u_hist.opens = OpenTries
              /\ u_hist.open_status = STATUS_SHARING_VIOLATION
        /\ u_hist.branch = "sharing" =>
              /\ Returned
              /\ u_result = [last_error_code |-> STATUS_SHARING_VIOLATION,
                             debug |-> 4]

\* C22's case: the 10th call of NtOpenFile returned a sharing violation
C22_Witness ==
  /\ Returned /\ u_result.debug = 4
  /\ u_hist.opens = OpenTries
  /\ u_hist.open_slept = OpenSleep * (OpenTries - 1)

\* C23: the deletion loop sets the delete disposition at most 20 times, at
\* most 5 times when the object was moved away before the loop, and never
\* again after a call that succeeded or that failed with a status other
\* than STATUS_CANNOT_DELETE and STATUS_DIRECTORY_NOT_EMPTY on a directory
\* verified empty.
C23_DeletionLoopBudget ==
  /\ u_hist.disps <= (IF u_hist.moved_before THEN MovedTries ELSE DeleteTries)
  /\ ~u_hist.after_stop

\* C23's case: the loop has used up its 20 calls
C23_Witness ==
  /\ Returned
  /\ ~u_hist.moved_before
  /\ u_hist.disps = DeleteTries

\* the same for an object moved away before the loop
C23_WitnessMoved ==
  /\ Returned
  /\ u_hist.moved_before
  /\ u_hist.disps = MovedTries

\* C24: a call in which move_away succeeded returns STATUS_SUCCESS, with
\* debug 0x6 when the deletion attempts after the move have failed.
C24_MovedAwayMeansSuccess ==
  (Returned /\ u.has_been_moved_away) =>
     /\ u_result.last_error_code = STATUS_SUCCESS
     /\ u_result.debug = (IF NT_SUCCESS(u.status) THEN 0 ELSE 6)

\* C24's case: the object was moved away and each of the deletion attempts
\* after it failed
C24_Witness ==
  /\ Returned /\ u.has_been_moved_away
  /\ u_hist.moved_before /\ u_hist.disps = MovedTries
  /\ ~NT_SUCCESS(u.status)
  /\ ~fs.delpend

\* an entry that persists: its attribute query says neither that it is
\* being deleted nor that it is gone
Persists(c) ==
  \E i \in 1..Len(c.entries) : ~EntryAbsent(c.entries[i])

\* C25: is_dir_empty returns success only for a directory without a
\* persisting entry, and when the enumeration starts and some entry
\* persists it returns STATUS_DIRECTORY_NOT_EMPTY.
C25_EmptyOnlyWhenNoEntryPersists ==
  (d_pc = "done" /\ Persists(d_in)) =>
     /\ d_result # STATUS_SUCCESS
     /\ NT_SUCCESS(d_in.first) => d_result = STATUS_DIRECTORY_NOT_EMPTY

\* C26: when a NtQueryDirectoryFile of the enumeration, the first or a
\* later one, fails with a status other than STATUS_NO_MORE_FILES,
\* is_dir_empty returns a failure.
C26_PageFailureReported ==
  (d_pc = "done" /\ (~NT_SUCCESS(d_in.first) \/ d_in.handed < Len(d_in.pages)))
     => ~NT_SUCCESS(d_result)

\* C27: the open for deletion asks for FILE_LIST_DIRECTORY and SYNCHRONIZE
\* and sets FILE_SYNCHRONOUS_IO_NONALERT exactly when the target has
\* FILE_ATTRIBUTE_DIRECTORY; a target without it is opened with access
\* DELETE and flags FILE_OPEN_FOR_BACKUP_INTENT only.
C27_DirectoryAccessOnlyForDirectories ==
  u_hist.opens > 0 =>
     IF u.fbi_dir
     THEN /\ u.access = {DELETE, "FILE_LIST_DIRECTORY", "SYNCHRONIZE"}
          /\ u.flags = {FILE_OPEN_FOR_BACKUP_INTENT,
                        "FILE_SYNCHRONOUS_IO_NONALERT"}
     ELSE /\ u.access = {DELETE}
          /\ u.flags = {FILE_OPEN_FOR_BACKUP_INTENT}

\* C28: once gvd_terminate_process has closed the master descriptor, no
\* descriptor of the master side is left open for a child that still runs,
\* so that its next read or write on the slave side meets the end of file.
C28_MasterClosedMeansEof ==
  h_hist.master_closed =>
     /\ desc.master_fd \notin h_open
     /\ ~h_hist.master_held

\* C29: kill is called with the pid of the recorded child only: while
\* child_pid is -1 neither gvd_setup_winsize nor gvd_terminate_process
\* sends a signal, and kill is never called with -1 or 0.
C29_SignalsOnlyToChild ==
  h_hist.kill_pids \subseteq {ChildPid}

\* C30: the first sleep of the Windows poll lasts 5 ms and no sleep lasts
\* less than 5 ms or more than the cap of 100 ms.
C30_SleepsWithinCap ==
  p_hist.sleeps > 0 =>
     /\ p_hist.first_sleep = FirstDelay
     /\ FirstDelay <= p_hist.last_sleep
     /\ p_hist.last_sleep <= MAX_DELAY

\* the Windows poll was called with a finite timeout
FinitePoll == p_in.build = "win32" /\ p_in.timeout >= 0

\* no pipe has had data or failed
NothingToRead == p_env.rd = {} /\ p_env.bad = {}

C31_Safety ==
  FinitePoll =>
     \* it never sleeps once the time slept has reached the timeout
     /\ p_hist.sleeps > 0 => p_hist.slept - p_hist.last_sleep < p_in.timeout
     \* it gives up only when the time slept has reached the timeout
     /\ p_hist.timed_out => p_hist.slept >= p_in.timeout /\ p.ret = 0
     /\ (p_pc = "done" /\ NothingToRead) => p_hist.timed_out
     /\ p_in.timeout = 0 => p_hist.sleeps = 0

\* C31: with a finite timeout >= 0 the Windows poll returns, and when no
\* pipe has had data it returns 0 at the first check at which the time slept
\* has reached the timeout, never earlier; with a timeout of 0 it returns
\* without a sleep.
C31_FiniteTimeoutReturns ==
  /\ []C31_Safety
  /\ (FinitePoll /\ p_pc = "call") ~> (p_pc = "done")

\* C31's case: the timeout ran out after several sleeps with nothing to read
C31_Witness ==
  /\ FinitePoll /\ p_in.timeout = 120
  /\ p_pc = "done" /\ NothingToRead
  /\ p.ret = 0
  /\ p_hist.sleeps = 5 /\ p_hist.slept = 125

\* the process has been spawned and runs
Spawned == wh.pc \in {"spawned", "live"} /\ wproc.life = "running"

\* no write end of the pipe behind the child's stdin is open any more
StdinAtEof ==
  /\ "w_infd" \notin wh.open
  /\ ~(wproc.life = "running" /\ "w_infd" \in w_hist.inherited)

\* C32: the parent-side ends w_infd and w_outfd are not inheritable: the
\* spawned process holds only w_forkin and w_forkout, and once the parent
\* has closed w_infd the child's stdin is at end-of-file.
C32_ParentEndsNotInherited ==
  Spawned =>
    /\ w_hist.inherited = {"w_forkin", "w_forkout"}
    /\ "w_infd" \notin wh.open => StdinAtEof

\* the control character child_setup_tty installs for a signal
InstalledChar(s, signal_number) ==
  IF signal_number = SIGINT THEN SetupTty(s).vintr
  ELSE IF signal_number = SIGQUIT THEN SetupTty(s).vquit
  ELSE SetupTty(s).vsusp

\* C33: send_signal_via_characters writes exactly one byte for SIGINT (3),
\* SIGQUIT (28) and SIGTSTP (26) and nothing for another signal number;
\* the byte is the VINTR, VQUIT or VSUSP character child_setup_tty installs
\* with ISIG enabled, and under these settings the child gets that signal.
C33_OneByteRaisesTheSignal ==
  t_hist.asked # 0 =>
    IF t_hist.asked \in {SIGINT, SIGQUIT, SIGTSTP}
    THEN /\ t_hist.wrote = <<CASE t_hist.asked = SIGINT -> 3
                               [] t_hist.asked = SIGQUIT -> 28
                               [] t_hist.asked = SIGTSTP -> 26>>
         /\ \A s \in Inherited :
              /\ SetupTty(s).isig
              /\ t_hist.wrote = <<InstalledChar(s, t_hist.asked)>>
         /\ t_hist.in_force => t_hist.raised = t_hist.asked
    ELSE /\ t_hist.wrote = <<>>
         /\ t_hist.raised = 0

\* C33's case: SIGQUIT was asked for after child_setup_tty had installed its
\* settings, one byte was written and the child got SIGQUIT
C33_Witness ==
  /\ t_hist.asked = SIGQUIT
  /\ t_hist.in_force
  /\ t_hist.wrote = <<28>>
  /\ t_hist.raised = SIGQUIT
  /\ t_child = "signaled"

(***************************************************************************)
(*                    Claims about move_away                               *)
(***************************************************************************)
\* move_away went past the query of the IndexNumber, inside its buffers
DestBuilt ==
  m_pc = "done" /\ Len(m_out.dest) > 16 + Len(trash_dir)
  /\ m_out.outside = {}

\* nibble n (0 the lowest) of a 64-bit value
Nibble(id, n) == (id[(n \div 4) + 1] \div (16 ^ (n % 4))) % 16

\* the value of a hexadecimal digit
DigitValue(c) == (CHOOSE k \in 1..16 : digit_image[k] = c) - 1

\* the 64-bit value 16 hexadecimal digits stand for, highest digit first
ValueOf(digits) ==
  [k \in 1..4 |->
     DigitValue(digits[16 - 4 * (k - 1)])
     + 16 * DigitValue(digits[15 - 4 * (k - 1)])
     + 256 * DigitValue(digits[14 - 4 * (k - 1)])
     + 4096 * DigitValue(digits[13 - 4 * (k - 1)])]

\* the last n characters of a string
Last(s, n) == SubSeq(s, Len(s) - n + 1, Len(s))

\* C34: the destination ends with exactly 16 uppercase hexadecimal digits
\* of the 64-bit IndexNumber, the most significant nibble first, zero
\* padded, also when the top bit is set; the digits give the IndexNumber
\* back, so two IndexNumbers never give the same name.
C34_SixteenHexDigits ==
  DestBuilt =>
    LET digits == Last(m_out.dest, 16) IN
    /\ Len(m_out.dest) = 4 + Len(m_in.root) + Len(trash_dir) + 16
    /\ \A j \in 1..16 :
         digits[j] = digit_image[Nibble(m_in.file_id, 16 - j) + 1]
    /\ ValueOf(digits) = m_in.file_id

\* C34's case: an IndexNumber with the top bit set and low words of zero
C34_Witness ==
  /\ DestBuilt
  /\ m_in.file_id = <<1, 0, 43981, 32768>>
  /\ Last(m_out.dest, 16)
       = <<"8", "0", "0", "0", "A", "B", "C", "D",
           "0", "0", "0", "0", "0", "0", "0", "1">>

\* C35: for every name of at most MAX_PATH wide characters move_away reads
\* and writes only inside its buffers of MAX_PATH wide characters.
C35_BuffersSuffice ==
  m_in.Length <= 2 * MAX_PATH => m_out.outside = {}

\* C36: when the pty allocation has failed (-1 and a null handle) neither
\* gvd_new_tty nor non_blocking_spawn uses the handle: no terminal settings
\* are applied through it, no fork and no child or parent setup is run on
\* it, and the caller is left with the failure.
C36_NullHandleUnused ==
  h_hist.setup_ret = -1 =>
     /\ h_hist.null_used = {}
     /\ h.pc = "failed"
     /\ child = NoChild

\* C37: every handle safe_unlink opens (to clear the read-only attribute,
\* to delete, and the delete-on-close handle reopened through it) is closed
\* exactly once before the call returns, whatever the return statement, and
\* NtClose is never given a handle that was not opened.
C37_HandlesClosedOnce ==
  /\ ~u_hist.bad_close
  /\ u_hist.closes <= u_hist.opened
  /\ Returned => u_hist.open = {} /\ u_hist.closes = u_hist.opened

\* C37's case: a call that opened the three kinds of handle has returned
C37_Witness ==
  /\ Returned
  /\ u_hist.kinds = {"attr", "handle", "handle2"}
  /\ u_hist.opened >= 3

\* execution is past the open loop
PastOpenLoop ==
  u_pc \in {"opened", "move", "loop", "loop_direm", "loop_move",
            "loop_reopen", "close"}

\* C38: past the open loop the last NtOpenFile of the loop returned success
\* and the delete handle is open; the loop is never left with no attempt
\* remaining and no handle.
C38_PastLoopHandleOpen ==
  PastOpenLoop =>
     /\ NT_SUCCESS(u_hist.open_status)
     /\ "handle" \in u_hist.open
     /\ u_pc = "opened" => u.try_counter > 0

\* C38's case: the open succeeded on the last attempt the loop has
C38_Witness ==
  /\ u_pc = "opened"
  /\ u_hist.opens = OpenTries
  /\ "handle" \in u_hist.open

C40_FirstPassCountsSecondPass ==
  a_pc \in {"spawned", "parsed"} =>
     /\ a_mem.written = a_mem.allocated - 1
     /\ a_mem.written = Len(a_cmdline) + 1
     /\ a_mem.written <= a_mem.allocated

\* C40's case: "cmd /c " in front of an argument with an escaped quote in it
\* and an escape character at its end
C40_Witness ==
  /\ a_pc = "spawned"
  /\ a_gui = -1
  /\ a_argv = <<<<escape_char, Quote, escape_char>>>>
  /\ a_mem = [allocated |-> 17, written |-> 16]

====
